---- MODULE Spec2Model ----
(***************************************************************************)
(* Deep Dependency Graph model of jaeger-ui: PathElem, transformDdgData,   *)
(* the visibility codec and GraphModel.                                    *)
(*                                                                         *)
(* Strings are sequences of UTF-16 code units, so that string building     *)
(* (stringifyEntry, join) and string comparison are computed as JavaScript *)
(* computes them.  An optional value is <<>> (undefined) or <<v>>.         *)
(***************************************************************************)
EXTENDS Integers, Sequences, FiniteSets, TLC

VARIABLES
    payload,            \* transformDdgData argument: TDdgPayload
    focal,              \* transformDdgData argument: { service, operation? }
    pc,                 \* position of the caller
    paths,              \* TDdgModel.paths
    vis,                \* PathElem._visibilityIdx of every PathElem of paths
    visIdxToPathElem,   \* TDdgModel.visIdxToPathElem
    err,                \* the error thrown by the last operation, "" if none
    density,            \* GraphModel.density
    showOp,             \* GraphModel.showOp
    vertices,           \* GraphModel.vertices (key -> vertex)
    vertexToPathElems,  \* GraphModel.vertexToPathElems (vertex key -> PathElems)
    pathElemToVertex,   \* GraphModel.pathElemToVertex (PathElem -> vertex key)
    pathElemToEdge,     \* GraphModel.pathElemToEdge (PathElem -> optional edge)
    thisVisIdxToPathElem, \* GraphModel.visIdxToPathElem, the GraphModel's own array
    peVis,              \* _visibilityIdx of a stand-alone PathElem
    peFirst,            \* history: the first value assigned to it
    peLast,             \* history: the last operation on it and its outcome
    peOps,              \* history: number of operations on it
    peSets,             \* history: number of assignments to its visibilityIdx
    codecIn,            \* the index array handed to encode
    token,              \* the visibility encoding
    codecOut,           \* the decoded index set
    call,               \* the last query made of the GraphModel and its arguments
    ret,                \* what that query returned
    hist,               \* the earlier queries of the caller, with what they returned
    memo,               \* the caches of the GraphModel's memoized queries
    tween,              \* a Tween, with the timers and frames of its window
    api                 \* a JaegerAPI.fetchTrace call and the requests it makes

vars == <<payload, focal, pc, paths, vis, visIdxToPathElem, err, density, showOp,
          vertices, vertexToPathElems, pathElemToVertex, pathElemToEdge,
          thisVisIdxToPathElem, peVis, peFirst, peLast,
          peOps, peSets, codecIn, token, codecOut, call, ret, hist, memo,
          tween, api>>

ddgVars == <<payload, focal, paths, vis, visIdxToPathElem, density, showOp,
             vertices, vertexToPathElems, pathElemToVertex, pathElemToEdge,
             thisVisIdxToPathElem>>
peVars == <<peVis, peFirst, peLast, peOps, peSets>>
codecVars == <<codecIn, token, codecOut>>
queryVars == <<call, ret, hist, memo>>
asyncVars == <<tween, api>>

-----------------------------------------------------------------------------
(* Bounds *)

\* total number of entries over all paths of a payload
MaxElems == 5
\* values written to a stand-alone PathElem's visibilityIdx are 0..MaxVisIdx
MaxVisIdx == 3
\* number of reads and writes of a stand-alone PathElem
MaxOps == 5
\* the codec is exercised on index arrays over 0..MaxCodecIdx ...
MaxCodecIdx == 5
\* ... of at most this length
MaxCodecLen == 3
\* length of a payload path where payloads are one or two paths
MaxPathLen == 3
\* total number of entries of a payload whose graph is queried
MaxQueryElems == 4
\* total number of entries of a payload whose element list the caller edits
MaxBuildElems == 4
\* number of different encodings a caller of the memoized queries goes through
MemoKeyCount == 16

-----------------------------------------------------------------------------
(* Optional values and small helpers *)

None == <<>>
Some(v) == <<v>>

Min(a, b) == IF a < b THEN a ELSE b
Max(a, b) == IF a < b THEN b ELSE a
Abs(n) == IF n < 0 THEN -n ELSE n
Sign(n) == IF n < 0 THEN -1 ELSE IF n > 0 THEN 1 ELSE 0

Range(s) == {s[i] : i \in 1..Len(s)}

RECURSIVE Flatten(_)
Flatten(ss) == IF ss = <<>> THEN <<>> ELSE Head(ss) \o Flatten(Tail(ss))

-----------------------------------------------------------------------------
(* Strings *)

StrA == <<97>>              \* "a"
StrAA == <<97, 44, 97>>     \* "a,a"
StrVT == <<11>>             \* "\v"
StrComma == <<44>>          \* ","

\* a < b for JavaScript strings: lexicographic on code units
StrLess(a, b) ==
    \E k \in 1..(Min(Len(a), Len(b)) + 1) :
        /\ \A j \in 1..(k - 1) : a[j] = b[j]
        /\ \/ k > Len(a) /\ k <= Len(b)
           \/ k <= Len(a) /\ k <= Len(b) /\ a[k] < b[k]

RECURSIVE join(_)
\* Array.prototype.join() with its default separator
join(strs) ==
    IF strs = <<>> THEN <<>>
    ELSE IF Len(strs) = 1 THEN strs[1]
    ELSE strs[1] \o StrComma \o join(Tail(strs))

StrB == <<66>>              \* "B"
StrC == <<99>>              \* "c"

\* the code units String.prototype.trim removes, among those used here
WhiteSpace == {9, 10, 11, 12, 13, 32, 160}

RECURSIVE trimStart(_)
trimStart(str) ==
    IF str # <<>> /\ Head(str) \in WhiteSpace THEN trimStart(Tail(str)) ELSE str

RECURSIVE trimEnd(_)
trimEnd(str) ==
    IF str # <<>> /\ str[Len(str)] \in WhiteSpace
    THEN trimEnd(SubSeq(str, 1, Len(str) - 1)) ELSE str

\* String.prototype.trim
trim(str) == trimEnd(trimStart(str))

\* String.prototype.toLowerCase, on the letters A..Z
toLowerCase(str) ==
    [i \in 1..Len(str) |-> IF str[i] \in 65..90 THEN str[i] + 32 ELSE str[i]]

RECURSIVE split(_, _)
\* String.prototype.split on a one-unit separator: never empty, and with an
\* empty string between two adjacent separators
split(str, sep) ==
    IF \A i \in 1..Len(str) : str[i] # sep THEN <<str>>
    ELSE LET i == CHOOSE j \in 1..Len(str) :
                      str[j] = sep /\ \A k \in 1..(j - 1) : str[k] # sep
         IN  <<SubSeq(str, 1, i - 1)>> \o split(SubSeq(str, i + 1, Len(str)), sep)

\* String.prototype.includes: the empty string is included in every string
includes(str, sub) ==
    \E i \in 1..(Len(str) - Len(sub) + 1) : SubSeq(str, i, i + Len(sub) - 1) = sub

-----------------------------------------------------------------------------
(* Inputs *)

EntrySet ==
    { [service |-> StrA,  operation |-> StrA],
      [service |-> StrA,  operation |-> StrAA],
      [service |-> StrAA, operation |-> StrA] }

FocalSet ==
    { [service |-> StrA, operation |-> None],
      [service |-> StrA, operation |-> Some(StrA)] }

RECURSIVE Split(_, _, _)
\* flat cut into consecutive non-empty paths after the positions in cuts
Split(flat, cuts, from) ==
    IF from > Len(flat) THEN <<>>
    ELSE LET ends == {c \in cuts : c >= from} \cup {Len(flat)}
             to == CHOOSE c \in ends : \A d \in ends : c <= d
         IN  <<SubSeq(flat, from, to)>> \o Split(flat, cuts, to + 1)

\* every payload of non-empty paths with at most n entries in total
Payloads(n) ==
    { Split(flat, cuts, 1) :
        flat \in UNION {[1..k -> EntrySet] : k \in 0..n},
        cuts \in SUBSET (1..(n - 1)) }

-----------------------------------------------------------------------------
(* PathElem *)

\* a PathElem is <<p, i>>: member i (memberIdx, from 0) of path p (from 1)
PathElemsOf(ps) ==
    UNION {{<<p, i>> : i \in 0..(Len(ps[p].members) - 1)} : p \in 1..Len(ps)}

memberOf(ps, pe) == ps[pe[1]]
memberIdx(pe) == pe[2]
operationOf(ps, pe) == ps[pe[1]].members[pe[2] + 1]

distance(ps, pe) == memberIdx(pe) - memberOf(ps, pe).focalIdx

focalSideNeighbor(ps, pe) ==
    IF distance(ps, pe) = 0 THEN None
    ELSE Some(<<pe[1], memberIdx(pe) - Sign(distance(ps, pe))>>)

\* mutant: the setter guarded by "!this._visibilityIdx", which 0 passes too
SetVisibilityIdx_Falsy(cur, visibilityIdx) ==
    IF cur = None \/ cur = Some(0)
    THEN [threw |-> FALSE, value |-> Some(visibilityIdx)]
    ELSE [threw |-> TRUE, value |-> cur]

\* set visibilityIdx: [threw, value], value the new _visibilityIdx
SetVisibilityIdx(cur, visibilityIdx) ==
    IF cur = None
    THEN [threw |-> FALSE, value |-> Some(visibilityIdx)]
    ELSE [threw |-> TRUE, value |-> cur]

\* get visibilityIdx: [threw, value], value the number returned
GetVisibilityIdx(cur) ==
    IF cur = None
    THEN [threw |-> TRUE, value |-> None]
    ELSE [threw |-> FALSE, value |-> cur]

-----------------------------------------------------------------------------
(* transformDdgData *)

stringifyEntry(e) == e.service \o StrVT \o e.operation

\* the compare value of a payload path
CompareValue(payloadPath) ==
    join([i \in 1..Len(payloadPath) |-> stringifyEntry(payloadPath[i])])

\* the sort's compare function
ComparePaths(a, b) ==
    IF StrLess(CompareValue(b), CompareValue(a)) THEN 1
    ELSE IF StrLess(CompareValue(a), CompareValue(b)) THEN -1
    ELSE 0

RECURSIVE InsertSorted(_, _)
\* x put after every element of sorted that does not compare greater than it
InsertSorted(sorted, x) ==
    IF sorted = <<>> THEN <<x>>
    ELSE IF ComparePaths(sorted[Len(sorted)], x) <= 0 THEN Append(sorted, x)
    ELSE Append(InsertSorted(SubSeq(sorted, 1, Len(sorted) - 1), x), sorted[Len(sorted)])

RECURSIVE SortPayload(_)
\* payload.slice().sort(compare): Array.prototype.sort is stable
SortPayload(pl) ==
    IF pl = <<>> THEN <<>>
    ELSE InsertSorted(SortPayload(SubSeq(pl, 1, Len(pl) - 1)), pl[Len(pl)])

NoFocalIdx == -1

\* does the entry match the focal selector
IsFocalEntry(e, f) ==
    /\ e.service = f.service
    /\ (f.operation = None \/ Some(e.operation) = f.operation)

\* mutant: focalIdx set at every match, so the last occurrence wins
SetsFocalIdx_EveryMatch(focalIdx, e, f) == IsFocalEntry(e, f)

\* the guard of "path.focalIdx = i": no focal occurrence found before
SetsFocalIdx(focalIdx, e, f) == focalIdx = NoFocalIdx /\ IsFocalEntry(e, f)

RECURSIVE FocalIdxOf(_, _, _, _)
\* path.focalIdx after the members from i on are mapped
FocalIdxOf(payloadPath, f, i, focalIdx) ==
    IF i >= Len(payloadPath) THEN focalIdx
    ELSE FocalIdxOf(payloadPath, f, i + 1,
                    IF SetsFocalIdx(focalIdx, payloadPath[i + 1], f) THEN i ELSE focalIdx)

\* the TDdgPath of a payload path
BuildPath(payloadPath, f) ==
    [focalIdx |-> FocalIdxOf(payloadPath, f, 0, NoFocalIdx), members |-> payloadPath]

\* the paths of the sorted payload, before the missing-focal check
BuildPaths(pl, f) ==
    LET sorted == SortPayload(pl)
    IN  [p \in 1..Len(sorted) |-> BuildPath(sorted[p], f)]

RECURSIVE MembersAt(_, _, _, _)
\* the members of path p at distance d, from member i on
MembersAt(ps, p, i, d) ==
    IF i >= Len(ps[p].members) THEN <<>>
    ELSE (IF distance(ps, <<p, i>>) = d THEN <<(<<p, i>>)>> ELSE <<>>)
         \o MembersAt(ps, p, i + 1, d)

RECURSIVE ElemsAtFrom(_, _, _)
ElemsAtFrom(ps, p, d) ==
    IF p > Len(ps) THEN <<>>
    ELSE MembersAt(ps, p, 0, d) \o ElemsAtFrom(ps, p + 1, d)

\* mutant: distance taken as focalIdx - memberIdx when the tiers are filled
distanceToPathElems_Negated(ps, d) == ElemsAtFrom(ps, 1, -d)

\* distanceToPathElems.get(d), <<>> for undefined (no list is ever empty)
distanceToPathElems(ps, d) == ElemsAtFrom(ps, 1, d)

\* mutant: the loop goes on only while both tiers had elements
LoopContinues_Both(downstreamElems, upstreamElems) ==
    downstreamElems # <<>> /\ upstreamElems # <<>>

\* the loop's condition: go on while either tier of the iteration had elements
LoopContinues(downstreamElems, upstreamElems) ==
    downstreamElems # <<>> \/ upstreamElems # <<>>

\* mutant: the upstream tier is indexed before the downstream tier
TierOrder_UpstreamFirst(downstreamElems, upstreamElems) ==
    upstreamElems \o downstreamElems

\* the order within one iteration: the downstream tier, then the upstream tier
TierOrder(downstreamElems, upstreamElems) == downstreamElems \o upstreamElems

RECURSIVE AssignLoop(_, _, _, _)
\* the do-while loop: the PathElems in the order setIdx is called on them
AssignLoop(ps, downstream, upstream, order) ==
    LET downstreamElems == distanceToPathElems(ps, downstream)
        upstreamElems == distanceToPathElems(ps, upstream)
        next == order \o TierOrder(downstreamElems, upstreamElems)
    IN  IF LoopContinues(downstreamElems, upstreamElems)
        THEN AssignLoop(ps, downstream - 1, upstream + 1, next)
        ELSE next

RECURSIVE SetIdxAll(_, _, _)
\* setIdx over order from position k on: [threw, vis]
SetIdxAll(order, k, v) ==
    IF k > Len(order) THEN [threw |-> FALSE, vis |-> v]
    ELSE LET r == SetVisibilityIdx(v[order[k]], k - 1)
         IN  IF r.threw THEN [threw |-> TRUE, vis |-> v]
             ELSE SetIdxAll(order, k + 1, [v EXCEPT ![order[k]] = r.value])

\* mutant: only the last path is checked for its focal node
LacksFocalNode_LastOnly(ps) ==
    ps # <<>> /\ ps[Len(ps)].focalIdx = NoFocalIdx

\* some path ended its mapping with focalIdx still -1
LacksFocalNode(ps) == \E p \in 1..Len(ps) : ps[p].focalIdx = NoFocalIdx

\* transformDdgData: [threw, error, paths, vis, visIdxToPathElem]
transformDdgData(pl, f) ==
    LET ps == BuildPaths(pl, f)
        order == AssignLoop(ps, 0, 1, <<>>)
        set == SetIdxAll(order, 1, [pe \in PathElemsOf(ps) |-> None])
        failed(e) == [threw |-> TRUE, error |-> e, paths |-> <<>>,
                      vis |-> <<>>, visIdxToPathElem |-> <<>>]
    IN  IF LacksFocalNode(ps)
        THEN failed("A payload path lacked the focalNode")
        ELSE IF set.threw
        THEN failed("Visibility Index cannot be changed once set")
        ELSE [threw |-> FALSE, error |-> "", paths |-> ps,
              vis |-> set.vis, visIdxToPathElem |-> order]

-----------------------------------------------------------------------------
(* GraphModel: construction *)

DensitySet == {"MostConcise", "UpstreamVsDownstream", "PreventPathEntanglement"}

StrOpSep == <<58, 58>>      \* "::"
StrSliceSep == <<95, 95, 95, 95>>   \* "____"

\* "service[::operation]": the operation only when shown or focal
elemToStr(ps, pe, so) ==
    LET op == operationOf(ps, pe)
    IN  IF so \/ distance(ps, pe) = 0
        THEN op.service \o StrOpSep \o op.operation
        ELSE op.service

SignStr(n) == IF n < 0 THEN <<61, 45, 49>> ELSE IF n > 0 THEN <<61, 49>> ELSE <<61, 48>>

RECURSIVE joinWith(_, _)
joinWith(strs, sep) ==
    IF strs = <<>> THEN <<>>
    ELSE IF Len(strs) = 1 THEN strs[1]
    ELSE strs[1] \o sep \o joinWith(Tail(strs), sep)

\* mutant: every density keyed as MostConcise, the path context left out
getPathElemHasher_Concise(ps, d, so, pe) == elemToStr(ps, pe, so)

\* the vertex key of a PathElem under a density
getPathElemHasher(ps, d, so, pe) ==
    IF d = "MostConcise" THEN elemToStr(ps, pe, so)
    ELSE IF d = "UpstreamVsDownstream"
    THEN elemToStr(ps, pe, so) \o SignStr(distance(ps, pe))
    ELSE LET lo == Min(memberOf(ps, pe).focalIdx, memberIdx(pe))
             hi == Max(memberOf(ps, pe).focalIdx, memberIdx(pe))
         IN  joinWith([k \in 1..(hi - lo + 1) |-> elemToStr(ps, <<pe[1], lo + k - 1>>, so)],
                      StrSliceSep)

getEdgeId(from, to) == <<from, to>>

\* mutant: from and to exchanged
EdgeOf_Reversed(ps, pe, vertexKey, connectedKey) ==
    [from |-> IF distance(ps, pe) > 0 THEN vertexKey ELSE connectedKey,
     to   |-> IF distance(ps, pe) > 0 THEN connectedKey ELSE vertexKey,
     ref  |-> pe]

\* the edge of a non-focal PathElem between its vertex and its neighbor's: a
\* new object { from, to }, whose identity (ref) is the PathElem it is made for
EdgeOf(ps, pe, vertexKey, connectedKey) ==
    [from |-> IF distance(ps, pe) > 0 THEN connectedKey ELSE vertexKey,
     to   |-> IF distance(ps, pe) > 0 THEN vertexKey ELSE connectedKey,
     ref  |-> pe]

\* mutant: every PathElem gets an edge of its own
EdgeFor_AlwaysNew(edgesById, edgeId, edge) == edge

\* the edge a PathElem is mapped to: the one registered under the id, if any
EdgeFor(edgesById, edgeId, edge) ==
    IF edgeId \in DOMAIN edgesById THEN edgesById[edgeId] ELSE edge

EmptyGraph ==
    [threw |-> FALSE, vertices |-> <<>>, vertexToPathElems |-> <<>>,
     pathElemToVertex |-> <<>>, pathElemToEdge |-> <<>>, edgesById |-> <<>>]

\* mutant: the operation of a new vertex kept only when operations are shown
VertexOperation_ShowOpOnly(so, isFocalNode, name) ==
    IF so THEN Some(name) ELSE None

\* the operation of a new vertex: null (None) unless shown or focal
VertexOperation(so, isFocalNode, name) ==
    IF so \/ isFocalNode THEN Some(name) ELSE None

\* mutant: a PathElem of a key that has a vertex replaces the vertex
VertexFor_Replace(vs, key, vertex) == (key :> vertex) @@ vs

\* this.vertices once the vertex of the key is looked up or, failing that, made
VertexFor(vs, key, vertex) ==
    IF key \in DOMAIN vs THEN vs ELSE vs @@ (key :> vertex)

\* mutant: a vertex keeps only the PathElem it was made for
LinkPathElem_FirstOnly(v2p, key, pe) ==
    IF key \in DOMAIN v2p THEN v2p ELSE v2p @@ (key :> {pe})

\* this.vertexToPathElems once the PathElem is linked to the vertex of the key
LinkPathElem(v2p, key, pe) ==
    IF key \in DOMAIN v2p
    THEN [v2p EXCEPT ![key] = @ \cup {pe}]
    ELSE v2p @@ (key :> {pe})

\* one iteration of the constructor's forEach
AddPathElem(g, ps, d, so, pe) ==
    LET key == getPathElemHasher(ps, d, so, pe)
        isFocalNode == distance(ps, pe) = 0
        vertex == [key |-> key, isFocalNode |-> isFocalNode,
                   service |-> operationOf(ps, pe).service,
                   operation |-> VertexOperation(so, isFocalNode,
                                                 operationOf(ps, pe).operation)]
        vs == VertexFor(g.vertices, key, vertex)
        v2p == LinkPathElem(g.vertexToPathElems, key, pe)
        p2v == (pe :> key) @@ g.pathElemToVertex
        connectedElem == focalSideNeighbor(ps, pe)
        g1 == [g EXCEPT !.vertices = vs, !.vertexToPathElems = v2p,
                        !.pathElemToVertex = p2v]
    IN  IF connectedElem = None THEN g1
        ELSE IF connectedElem[1] \notin DOMAIN p2v THEN [g1 EXCEPT !.threw = TRUE]
        ELSE LET edge == EdgeOf(ps, pe, key, p2v[connectedElem[1]])
                 edgeId == getEdgeId(edge.from, edge.to)
                 byId == IF edgeId \in DOMAIN g.edgesById THEN g.edgesById
                         ELSE g.edgesById @@ (edgeId :> edge)
             IN  [g1 EXCEPT !.edgesById = byId,
                            !.pathElemToEdge =
                                (pe :> EdgeFor(g.edgesById, edgeId, edge)) @@ @]

RECURSIVE GraphFold(_, _, _, _, _, _)
GraphFold(g, ps, elems, k, d, so) ==
    IF k > Len(elems) \/ g.threw THEN g
    ELSE GraphFold(AddPathElem(g, ps, d, so, elems[k]), ps, elems, k + 1, d, so)

\* Array.prototype.slice(): a new array of the same elements
slice(arr) == arr

\* mutant: the constructor goes on past a PathElem it cannot connect
GraphModel_NoThrow(ps, elems, d, so) ==
    [GraphFold(EmptyGraph, ps, elems, 1, d, so) EXCEPT !.threw = FALSE]

\* new GraphModel({ ddgModel, density, showOp })
GraphModel(ps, elems, d, so) == GraphFold(EmptyGraph, ps, elems, 1, d, so)

-----------------------------------------------------------------------------
(* Visibility codec: a token is the ascending list of the maximal runs      *)
(* <<first, length>> of consecutive indices; the empty list is the empty     *)
(* token.                                                                    *)

EmptyToken == <<>>

RECURSIVE RunsOf(_, _)
\* the maximal runs of the index set S that start at or after lo
RunsOf(S, lo) ==
    LET rest == {i \in S : i >= lo}
    IN  IF rest = {} THEN <<>>
        ELSE LET first == CHOOSE i \in rest : \A j \in rest : i <= j
                 past == CHOOSE n \in first..(first + Cardinality(rest)) :
                            /\ n \notin rest
                            /\ \A j \in first..(n - 1) : j \in rest
             IN  <<(<<first, past - first>>)>> \o RunsOf(S, past)

\* encode(indices: number[]): string
encode(indices) == RunsOf(Range(indices), 0)

\* is the token one that encode produces
WellFormedToken(t) ==
    /\ \A k \in 1..Len(t) : t[k][1] >= 0 /\ t[k][2] >= 1
    /\ \A k \in 1..(Len(t) - 1) : t[k][1] + t[k][2] < t[k + 1][1]

RECURSIVE RunIndices(_, _)
RunIndices(first, length) ==
    IF length = 0 THEN <<>> ELSE <<first>> \o RunIndices(first + 1, length - 1)

\* decode(token: string): number[], ascending; throws on a malformed token
decode(t) ==
    IF WellFormedToken(t)
    THEN [threw |-> FALSE,
          indices |-> Flatten([k \in 1..Len(t) |-> RunIndices(t[k][1], t[k][2])])]
    ELSE [threw |-> TRUE, indices |-> <<>>]

-----------------------------------------------------------------------------
(* GraphModel: visible indices *)

\* mutant: only one hop on either side of the focal node is visible by default
getDefaultVisiblePathElems_OneHop(ps) ==
    distanceToPathElems(ps, -1) \o distanceToPathElems(ps, 0)
    \o distanceToPathElems(ps, 1)

\* getDefaultVisiblePathElems
getDefaultVisiblePathElems(ps) ==
    distanceToPathElems(ps, -2) \o distanceToPathElems(ps, -1)
    \o distanceToPathElems(ps, 0)
    \o distanceToPathElems(ps, 1) \o distanceToPathElems(ps, 2)

\* new Set(decode(visEncoding)) of an encoding that is given
DecodedIndexSet(visEncoding) ==
    LET r == decode(visEncoding)
    IN  [threw |-> r.threw, indices |-> Range(r.indices)]

\* mutant: the decoded indices filtered with Boolean, which drops index 0
getVisibleIndices_DropZero(ps, v, visEncoding) ==
    LET r == DecodedIndexSet(visEncoding[1])
    IN  [threw |-> r.threw, indices |-> r.indices \ {0}]

\* getVisibleIndices(visEncoding?): [threw, indices]
getVisibleIndices(ps, v, visEncoding) ==
    IF visEncoding = None
    THEN LET pathElems == getDefaultVisiblePathElems(ps)
         IN  [threw |-> \E k \in 1..Len(pathElems) : GetVisibilityIdx(v[pathElems[k]]).threw,
              indices |-> {GetVisibilityIdx(v[pathElems[k]]).value[1] :
                             k \in {j \in 1..Len(pathElems) : v[pathElems[j]] # None}}]
    ELSE DecodedIndexSet(visEncoding[1])

-----------------------------------------------------------------------------
(* GraphModel: queries.  A graph g is the record of the frozen maps          *)
(* [vertices, vertexToPathElems, pathElemToVertex, pathElemToEdge]; ps, v    *)
(* and elems are the paths, the visibility indices and visIdxToPathElem.     *)

\* is an optional string truthy: undefined and the empty string are not
Truthy(s) == s # None /\ s[1] # <<>>

RECURSIVE Dedup(_, _)
\* Array.from(new Set(seq)): acc followed by the elements of seq not seen
\* before, in the order of their first occurrence
Dedup(seq, acc) ==
    IF seq = <<>> THEN acc
    ELSE Dedup(Tail(seq), IF Head(seq) \in Range(acc) THEN acc ELSE Append(acc, Head(seq)))

IsSome(x) == x # None

\* mutant: the undefined entries of the mapped array are not filtered out
getVisiblePathElems_NoFilter(ps, elems, visEncoding) ==
    IF visEncoding = None
    THEN [threw |-> FALSE,
          pathElems |-> [k \in 1..Len(getDefaultVisiblePathElems(ps)) |->
                            Some(getDefaultVisiblePathElems(ps)[k])]]
    ELSE LET r == decode(visEncoding[1])
         IN  [threw |-> r.threw,
              pathElems |-> [k \in 1..Len(r.indices) |->
                                IF r.indices[k] < Len(elems)
                                THEN Some(elems[r.indices[k] + 1]) ELSE None]]

\* getVisiblePathElems(visEncoding?): [threw, pathElems], a PathElem being
\* Some(pe) and an undefined array entry None
getVisiblePathElems(ps, elems, visEncoding) ==
    IF visEncoding = None
    THEN [threw |-> FALSE,
          pathElems |-> [k \in 1..Len(getDefaultVisiblePathElems(ps)) |->
                            Some(getDefaultVisiblePathElems(ps)[k])]]
    ELSE LET r == decode(visEncoding[1])
             mapped == [k \in 1..Len(r.indices) |->
                           IF r.indices[k] < Len(elems)
                           THEN Some(elems[r.indices[k] + 1]) ELSE None]
         IN  [threw |-> r.threw, pathElems |-> SelectSeq(mapped, IsSome)]

\* the edges added by getVisible's forEach, one entry per PathElem with an edge
EdgesOfElems(g, pathElems) ==
    LET has(x) == x # None /\ x[1] \in DOMAIN g.pathElemToEdge
        with == SelectSeq(pathElems, has)
    IN  [k \in 1..Len(with) |-> g.pathElemToEdge[with[k][1]]]

\* getVisible(visEncoding?): [threw, edges, vertices]
getVisible(g, ps, elems, visEncoding) ==
    LET r == getVisiblePathElems(ps, elems, visEncoding)
        pathElems == r.pathElems
        noVertex(x) == x = None \/ x[1] \notin DOMAIN g.pathElemToVertex
    IN  IF r.threw \/ \E k \in 1..Len(pathElems) : noVertex(pathElems[k])
        THEN [threw |-> TRUE, edges |-> <<>>, vertices |-> <<>>]
        ELSE [threw |-> FALSE,
              edges |-> Dedup(EdgesOfElems(g, pathElems), <<>>),
              vertices |-> Dedup([k \in 1..Len(pathElems) |->
                                     g.vertices[g.pathElemToVertex[pathElems[k][1]]]], <<>>)]

\* does some token of the lower-cased query occur in the vertex's service or in
\* its operation, when it has one
UiFindMatch(vertex, uiFindArr) ==
    LET svc == toLowerCase(vertex.service)
        op == IF Truthy(vertex.operation)
              THEN Some(toLowerCase(vertex.operation[1])) ELSE vertex.operation
    IN  \E j \in 1..Len(uiFindArr) :
            \/ includes(svc, uiFindArr[j])
            \/ Truthy(op) /\ includes(op[1], uiFindArr[j])

\* the vertexSet getVisibleUiFindMatches fills of what this.getVisible returned
MatchesOf(uiFind, visible) ==
    LET uiFindArr == split(toLowerCase(trim(uiFind[1])), 32)
    IN  [threw |-> visible.threw,
         vertexSet |-> {visible.vertices[i] :
                          i \in {k \in 1..Len(visible.vertices) :
                                    UiFindMatch(visible.vertices[k], uiFindArr)}}]

\* getVisibleUiFindMatches(uiFind?, visEncoding?): [threw, vertexSet], computed
\* afresh
getVisibleUiFindMatches(g, ps, elems, uiFind, visEncoding) ==
    IF ~Truthy(uiFind) THEN [threw |-> FALSE, vertexSet |-> {}]
    ELSE MatchesOf(uiFind, getVisible(g, ps, elems, visEncoding))

\* memoize(10): the number of results a memoized method keeps
MemoLimit == 10

\* the caches of a new GraphModel, most recently used entry first
NoMemo == [getVisible |-> <<>>, getVisibleUiFindMatches |-> <<>>]

\* the position in the cache of the entry of these arguments, 0 if there is none
lruFind(entries, key) ==
    IF \E i \in 1..Len(entries) : entries[i].key = key
    THEN CHOOSE i \in 1..Len(entries) : entries[i].key = key
    ELSE 0

\* the cache once entry i was used: the entry is moved to the front
lruTouch(entries, i) ==
    <<entries[i]>> \o SubSeq(entries, 1, i - 1) \o SubSeq(entries, i + 1, Len(entries))

\* mutant: a full cache drops the entry used last instead of the oldest one,
\* and hands the dropped result out for the new arguments
lruPut_KeepStale(entries, key, value) ==
    IF Len(entries) >= MemoLimit
    THEN <<[key |-> key, value |-> entries[1].value]>> \o Tail(entries)
    ELSE <<[key |-> key, value |-> value]>> \o entries

\* the cache once a new result is put in front, the oldest entry dropped when
\* the cache is over its limit
lruPut(entries, key, value) ==
    SubSeq(<<[key |-> key, value |-> value]>> \o entries, 1,
           Min(Len(entries) + 1, MemoLimit))

\* this.getVisible(visEncoding) through its cache: [value, memo]; a call that
\* throws leaves the cache as it was
MemoGetVisible(m, g, ps, elems, visEncoding) ==
    LET i == lruFind(m.getVisible, visEncoding)
        value == getVisible(g, ps, elems, visEncoding)
    IN  IF i > 0
        THEN [value |-> m.getVisible[i].value,
              memo |-> [m EXCEPT !.getVisible = lruTouch(@, i)]]
        ELSE [value |-> value,
              memo |-> IF value.threw THEN m
                       ELSE [m EXCEPT !.getVisible = lruPut(@, visEncoding, value)]]

\* this.getVisibleUiFindMatches(uiFind, visEncoding) through its cache, the
\* this.getVisible it calls going through the cache of getVisible
MemoGetVisibleUiFindMatches(m, g, ps, elems, uiFind, visEncoding) ==
    LET key == <<uiFind, visEncoding>>
        i == lruFind(m.getVisibleUiFindMatches, key)
        visible == MemoGetVisible(m, g, ps, elems, visEncoding)
        value == IF Truthy(uiFind) THEN MatchesOf(uiFind, visible.value)
                 ELSE [threw |-> FALSE, vertexSet |-> {}]
        m1 == IF Truthy(uiFind) THEN visible.memo ELSE m
    IN  IF i > 0
        THEN [value |-> m.getVisibleUiFindMatches[i].value,
              memo |-> [m EXCEPT !.getVisibleUiFindMatches = lruTouch(@, i)]]
        ELSE [value |-> value,
              memo |-> IF value.threw THEN m1
                       ELSE [m1 EXCEPT !.getVisibleUiFindMatches = lruPut(@, key, value)]]

\* getVertexVisiblePathElems(vertexKey, visEncoding): [defined, threw, elems];
\* an encoding that is absent or the empty string selects by distance
getVertexVisiblePathElems(g, ps, v, elems, vertexKey, visEncoding) ==
    IF vertexKey \notin DOMAIN g.vertices \/ g.vertexToPathElems[vertexKey] = {}
    THEN [defined |-> FALSE, threw |-> FALSE, elems |-> <<>>]
    ELSE LET ofVertex(pe) == pe \in g.vertexToPathElems[vertexKey]
             pathElems == SelectSeq(elems, ofVertex)
             visIndices == IF Truthy(visEncoding) THEN DecodedIndexSet(visEncoding[1])
                           ELSE [threw |-> FALSE, indices |-> {}]
             shown(pe) == IF Truthy(visEncoding)
                          THEN GetVisibilityIdx(v[pe]).value[1] \in visIndices.indices
                          ELSE Abs(distance(ps, pe)) < 3
         IN  [defined |-> TRUE, threw |-> visIndices.threw,
              elems |-> IF visIndices.threw THEN <<>> ELSE SelectSeq(pathElems, shown)]

-----------------------------------------------------------------------------
(* GraphModel: generations and visibility updates.  These methods are        *)
(* exercised by the tests of the repository and described in its             *)
(* specification; they are written from that description.                    *)

Upstream == -1
Downstream == 1
EDirection == {Upstream, Downstream}

\* ECheckedStatus
Empty == "Empty"
Partial == "Partial"
Full == "Full"

\* the member of pe's path one step from pe in the direction, unless there is
\* none or it is pe's focalSideNeighbor
GenerationMember(ps, pe, direction) ==
    LET i == memberIdx(pe) + direction
    IN  IF /\ i \in 0..(Len(memberOf(ps, pe).members) - 1)
           /\ Some(<<pe[1], i>>) # focalSideNeighbor(ps, pe)
        THEN <<(<<pe[1], i>>)>> ELSE <<>>

\* getGeneration(vertexKey, direction, visEncoding?): the PathElems one hop
\* farther than the visible PathElems of the vertex
getGeneration(g, ps, v, elems, vertexKey, direction, visEncoding) ==
    LET r == getVertexVisiblePathElems(g, ps, v, elems, vertexKey, visEncoding)
    IN  IF ~r.defined THEN <<>>
        ELSE Flatten([k \in 1..Len(r.elems) |-> GenerationMember(ps, r.elems[k], direction)])

\* mutant: a generation with any visible element counts as Full
CheckedStatus_AnyIsFull(generation, visibleGeneration) ==
    IF visibleGeneration # <<>> THEN Full ELSE Empty

\* Full, Partial or Empty by the number of visible elements of a generation
CheckedStatus(generation, visibleGeneration) ==
    IF Len(visibleGeneration) = Len(generation) THEN Full
    ELSE IF visibleGeneration # <<>> THEN Partial
    ELSE Empty

\* getGenerationVisibility(vertexKey, direction, visEncoding?): None for null
getGenerationVisibility(g, ps, v, elems, vertexKey, direction, visEncoding) ==
    LET generation == getGeneration(g, ps, v, elems, vertexKey, direction, visEncoding)
        visibleIndices == getVisibleIndices(ps, v, visEncoding).indices
        visible(pe) == GetVisibilityIdx(v[pe]).value[1] \in visibleIndices
    IN  IF generation = <<>> THEN None
        ELSE Some(CheckedStatus(generation, SelectSeq(generation, visible)))

RECURSIVE ArrayFrom(_)
\* Array.from(set of numbers), here in ascending order
ArrayFrom(S) ==
    IF S = {} THEN <<>>
    ELSE LET m == CHOOSE i \in S : \A j \in S : i <= j
         IN  <<m>> \o ArrayFrom(S \ {m})

\* mutant: a generation that is not Full is left as it is
UpdatedIndices_NeverAdds(visibleIndices, generationIndices, status) ==
    IF status = Full THEN visibleIndices \ generationIndices
    ELSE visibleIndices

\* the visible indices after a generation of the given status is toggled
UpdatedIndices(visibleIndices, generationIndices, status) ==
    IF status = Full THEN visibleIndices \ generationIndices
    ELSE visibleIndices \cup generationIndices

\* getVisWithUpdatedGeneration(vertexKey, direction, visEncoding?): None for
\* undefined, else Some([visEncoding, update])
getVisWithUpdatedGeneration(g, ps, v, elems, vertexKey, direction, visEncoding) ==
    LET generation == getGeneration(g, ps, v, elems, vertexKey, direction, visEncoding)
        status == getGenerationVisibility(g, ps, v, elems, vertexKey, direction, visEncoding)
        visibleIndices == getVisibleIndices(ps, v, visEncoding).indices
        generationIndices == {GetVisibilityIdx(v[generation[k]]).value[1] :
                                 k \in 1..Len(generation)}
    IN  IF generation = <<>> \/ status = None THEN None
        ELSE Some([visEncoding |->
                       encode(ArrayFrom(UpdatedIndices(visibleIndices, generationIndices,
                                                       status[1]))),
                   update |-> IF status[1] = Full THEN Empty ELSE Full])

\* the PathElems of pe's path from pe away from the focal node, pe included
externalPath(ps, pe) ==
    IF distance(ps, pe) = 0 THEN {pe}
    ELSE IF distance(ps, pe) > 0
    THEN {<<pe[1], i>> : i \in memberIdx(pe)..(Len(memberOf(ps, pe).members) - 1)}
    ELSE {<<pe[1], i>> : i \in 0..memberIdx(pe)}

\* the PathElems of pe's path from the focal occurrence to pe, both included
focalPath(ps, pe) ==
    {<<pe[1], i>> : i \in Min(memberOf(ps, pe).focalIdx, memberIdx(pe))
                          ..Max(memberOf(ps, pe).focalIdx, memberIdx(pe))}

IndicesOf(v, pes) == {GetVisibilityIdx(v[pe]).value[1] : pe \in pes}

\* getVisWithoutVertex(vertexKey, visEncoding?): None for undefined, else
\* Some(encoding); the visible PathElems of the vertex are hidden together
\* with what lies beyond them on their paths
getVisWithoutVertex(g, ps, v, elems, vertexKey, visEncoding) ==
    LET r == getVertexVisiblePathElems(g, ps, v, elems, vertexKey, visEncoding)
        visible == getVisibleIndices(ps, v, visEncoding).indices
        hidden == UNION {externalPath(ps, r.elems[k]) : k \in 1..Len(r.elems)}
    IN  IF r.defined /\ r.elems # <<>>
        THEN Some(encode(ArrayFrom(visible \ IndicesOf(v, hidden))))
        ELSE None

\* getVisWithVertices(vertices, visEncoding?): [threw, visEncoding]; a vertex
\* argument is Some(key) for the model's vertex of that key and None for an
\* object that is not a vertex of this model; the PathElems of each vertex are
\* shown together with what lies between them and the focal node
getVisWithVertices(g, ps, v, vs, visEncoding) ==
    LET known(x) == x # None /\ x[1] \in DOMAIN g.vertexToPathElems
        shown == UNION {focalPath(ps, pe) :
                          pe \in UNION {g.vertexToPathElems[vs[k][1]] : k \in 1..Len(vs)}}
        visible == getVisibleIndices(ps, v, visEncoding).indices
    IN  IF \E k \in 1..Len(vs) : ~known(vs[k])
        THEN [threw |-> TRUE, visEncoding |-> None]
        ELSE [threw |-> FALSE,
              visEncoding |-> Some(encode(ArrayFrom(visible \cup IndicesOf(v, shown))))]

-----------------------------------------------------------------------------
(* Tween: a value animated over time by a timeout and animation frames *)

MaxDelay == 1
MaxDuration == 2
MaxTime == 3
MaxFrames == 3

\* what a callback handed to the Tween does when it is invoked: it returns, or
\* it calls cancel() on the Tween and returns
TTweenCallback == {"returns", "cancels"}

\* no Tween constructed yet, and its window with nothing scheduled
NoTween ==
    [constructed |-> FALSE,
     callbackComplete |-> None, callbackUpdate |-> None,
     duration |-> 0, startTime |-> 0, requestID |-> None, timeoutID |-> None,
     now |-> 0,             \* Date.now()
     nextID |-> 1,          \* the next id the window hands out
     timeouts |-> {},       \* the timeouts the window has scheduled: [id, due]
     frames |-> {},         \* the animation frames the window has scheduled
     fired |-> 0,           \* number of timeouts and frames fired so far
     current |-> None,      \* the state handed to the callbacks last
     cancelled |-> FALSE,   \* history: cancel() has been called
     onUpdate |-> 0,        \* history: invocations of onUpdate
     onComplete |-> 0,      \* history: invocations of onComplete
     late |-> 0]            \* history: invocations made after cancel()

\* window.setTimeout(this._frameCallback, delay); the id returned is t.nextID
setTimeout(t, delay) ==
    [t EXCEPT !.timeouts = @ \cup {[id |-> t.nextID, due |-> t.now + delay]},
              !.nextID = @ + 1]

\* window.requestAnimationFrame(this._frameCallback); the id returned is t.nextID
requestAnimationFrame(t) ==
    [t EXCEPT !.frames = @ \cup {t.nextID}, !.nextID = @ + 1]

clearTimeout(t, id) == [t EXCEPT !.timeouts = {x \in @ : x.id # id}]

cancelAnimationFrame(t, id) == [t EXCEPT !.frames = @ \ {id}]

\* new Tween({ duration, delay, onUpdate, onComplete }); delay 0 stands for a
\* delay of 0 or none, a callback is None or Some of what it does
Tween(t, duration, delay, onUpdate, onComplete) ==
    LET base == [t EXCEPT !.constructed = TRUE,
                          !.startTime = t.now + delay,
                          !.duration = duration]
        held == [base EXCEPT !.callbackComplete = onComplete,
                             !.callbackUpdate = onUpdate]
    IN  IF onUpdate = None /\ onComplete = None
        THEN [base EXCEPT !.callbackComplete = None, !.callbackUpdate = None,
                          !.timeoutID = None, !.requestID = None]
        ELSE IF delay # 0
        THEN [setTimeout(held, delay) EXCEPT !.timeoutID = Some(held.nextID),
                                             !.requestID = None]
        ELSE [requestAnimationFrame(held) EXCEPT !.requestID = Some(held.nextID),
                                                 !.timeoutID = None]

\* tween.cancel()
cancel(t) ==
    LET t1 == IF t.timeoutID # None
              THEN [clearTimeout(t, t.timeoutID[1]) EXCEPT !.timeoutID = None]
              ELSE t
        t2 == IF t1.requestID # None
              THEN [cancelAnimationFrame(t1, t1.requestID[1]) EXCEPT !.requestID = None]
              ELSE t1
    IN  [t2 EXCEPT !.callbackComplete = None, !.callbackUpdate = None,
                   !.cancelled = TRUE]

\* tween.getCurrent(): the value is from, to, or eased between them
getCurrent(t) ==
    LET elapsed == t.now - t.startTime
    IN  IF elapsed <= 0 THEN [done |-> FALSE, value |-> "from"]
        ELSE IF elapsed >= t.duration THEN [done |-> TRUE, value |-> "to"]
        ELSE [done |-> FALSE, value |-> "eased"]

\* the Tween invokes the callback named which ("onUpdate" or "onComplete"),
\* which does what it does
Invoke(t, which, does) ==
    LET counted == [t EXCEPT ![which] = @ + 1,
                             !.late = IF t.cancelled THEN @ + 1 ELSE @]
    IN  IF does = "cancels" THEN cancel(counted) ELSE counted

\* tween._frameCallback(), run by the window for a timeout or a frame
_frameCallback(t) ==
    LET t0 == [t EXCEPT !.timeoutID = None, !.requestID = None]
        current == getCurrent(t0)
        t1 == IF t0.callbackUpdate # None
              THEN Invoke(t0, "onUpdate", t0.callbackUpdate[1])
              ELSE t0
        t2 == IF t1.callbackComplete # None /\ current.done
              THEN Invoke(t1, "onComplete", t1.callbackComplete[1])
              ELSE t1
        t3 == [t2 EXCEPT !.current = Some(current)]
    IN  IF current.done
        THEN [t3 EXCEPT !.callbackComplete = None, !.callbackUpdate = None]
        ELSE [requestAnimationFrame(t3) EXCEPT !.requestID = Some(t3.nextID)]

-----------------------------------------------------------------------------
(* JaegerAPI.fetchTrace: the trace request and the span-reference requests *)

MaxSpans == 2
MaxRefs == 2

\* a reference of a span: reference.span is None while unset, else Some of the
\* span, whose process has been assigned or not
References ==
    {[span |-> None], [span |-> Some([process |-> TRUE])]}

\* a span of the trace: span.references is None when it is not an array
Spans ==
    {[references |-> None]}
        \cup {[references |-> Some(refs)] :
                 refs \in UNION {[1..n -> References] : n \in 0..MaxRefs}}

\* the responses to the trace request: trace says whether data[0] is there and
\* has an array of spans
TraceDatas ==
    {[trace |-> FALSE, spans |-> <<>>]}
        \cup {[trace |-> TRUE, spans |-> sp] :
                 sp \in UNION {[1..n -> Spans] : n \in 0..MaxSpans}}

\* the outcomes of a reference request: ok is FALSE when getJSON rejects (a
\* failed request, a status of 400 or more, a body that is not JSON); else the
\* body has data[0] or not (trace), its spans are an array or not (spans), its
\* processes are an object, null or something else, the spans have one of the
\* reference's spanID or not (found), whose processID is a string or not
RefResponses ==
    {r \in [ok : BOOLEAN, trace : BOOLEAN, spans : BOOLEAN,
            processes : {"object", "null", "other"},
            found : BOOLEAN, processID : BOOLEAN] :
        /\ ~r.ok => ~r.trace
        /\ ~r.trace => (~r.spans /\ r.processes = "other")
        /\ ~r.spans => ~r.found
        /\ ~r.found => ~r.processID}

\* the references of the trace, each by the index of its span and its own
RefsOf(traceData) ==
    IF ~traceData.trace THEN {}
    ELSE {pos \in (1..Len(traceData.spans)) \X (1..MaxRefs) :
             /\ traceData.spans[pos[1]].references # None
             /\ pos[2] <= Len(traceData.spans[pos[1]].references[1])}

RefAt(traceData, pos) == traceData.spans[pos[1]].references[1][pos[2]]

\* populateSpanReference makes a request for the reference
NeedsRequest(reference) == reference.span = None

\* populateSpanReference, from the response to its request on: the reference
\* as the callbacks leave it; typeof null is 'object', and reading a property
\* of null throws after reference.span was assigned
populateSpanReference(reference, r) ==
    IF ~r.ok THEN reference
    ELSE IF ~r.trace \/ ~r.spans \/ r.processes = "other" THEN reference
    ELSE IF ~r.found THEN [reference EXCEPT !.span = None]
    ELSE IF r.processID /\ r.processes = "object"
    THEN [reference EXCEPT !.span = Some([process |-> TRUE])]
    ELSE [reference EXCEPT !.span = Some([process |-> FALSE])]

\* no call of fetchTrace made yet
NoApi ==
    [phase |-> "idle",      \* idle, requested, populating, resolved, rejected
     traceData |-> None,    \* the response to the trace request
     value |-> None,        \* what the promise of fetchTrace resolved with
     original |-> None,     \* history: the response as it arrived
     requests |-> <<>>,     \* history: reference -> none, inflight, settled
     responses |-> <<>>]    \* history: reference -> the response it got

-----------------------------------------------------------------------------
(* The deep dependency graph, from payload to GraphModel *)

\* no query made yet; a query is its name and its arguments, None for the
\* arguments it does not take
NoCall ==
    [op |-> "", visEncoding |-> None, uiFind |-> None, vertexKey |-> None,
     direction |-> 0, vertices |-> <<>>]

NoGraph ==
    /\ vertices = None /\ vertexToPathElems = None
    /\ pathElemToVertex = None /\ pathElemToEdge = None
    /\ thisVisIdxToPathElem = None

InitOther ==
    /\ peVis = None /\ peFirst = None
    /\ peLast = [op |-> "new", arg |-> None, threw |-> FALSE, value |-> None]
    /\ peOps = 0 /\ peSets = 0
    /\ codecIn = <<>> /\ token = None /\ codecOut = None
    /\ call = NoCall /\ ret = None /\ hist = <<>> /\ memo = NoMemo
    /\ tween = NoTween /\ api = NoApi

Init ==
    /\ payload \in Payloads(MaxElems)
    /\ focal \in FocalSet
    /\ pc = "start"
    /\ paths = <<>> /\ vis = <<>> /\ visIdxToPathElem = <<>>
    /\ err = ""
    /\ density = "" /\ showOp = FALSE
    /\ NoGraph
    /\ InitOther

\* the caller runs transformDdgData(payload, focal)
Transform ==
    /\ pc = "start"
    /\ \E r \in {transformDdgData(payload, focal)} :
           /\ pc' = IF r.threw THEN "transformFailed" ELSE "transformed"
           /\ err' = r.error
           /\ paths' = r.paths
           /\ vis' = r.vis
           /\ visIdxToPathElem' = r.visIdxToPathElem
    /\ UNCHANGED <<payload, focal, density, showOp, vertices, vertexToPathElems,
                   pathElemToVertex, pathElemToEdge, thisVisIdxToPathElem>>
    /\ UNCHANGED <<peVars, codecVars, queryVars, asyncVars>>

\* the caller builds a GraphModel of the transformed model
MakeGraph ==
    /\ pc = "transformed"
    /\ \E d \in DensitySet, so \in BOOLEAN :
        \E g \in {GraphModel(paths, visIdxToPathElem, d, so)} :
            /\ density' = d
            /\ showOp' = so
            /\ pc' = IF g.threw THEN "graphFailed" ELSE "graph"
            /\ err' = IF g.threw THEN "Non-focal pathElem cannot be connected to graph"
                      ELSE ""
            /\ vertices' = IF g.threw THEN None ELSE g.vertices
            /\ vertexToPathElems' = IF g.threw THEN None ELSE g.vertexToPathElems
            /\ pathElemToVertex' = IF g.threw THEN None ELSE g.pathElemToVertex
            /\ pathElemToEdge' = IF g.threw THEN None ELSE g.pathElemToEdge
            /\ thisVisIdxToPathElem' = IF g.threw THEN None ELSE slice(visIdxToPathElem)
    /\ UNCHANGED <<payload, focal, paths, vis, visIdxToPathElem>>
    /\ UNCHANGED <<peVars, codecVars, queryVars, asyncVars>>

Next == Transform \/ MakeGraph

Spec == Init /\ [][Next]_vars

-----------------------------------------------------------------------------
(* Graphs of one or two paths, long enough to diverge and meet again *)

\* the non-empty payload paths of at most n entries
PayloadPaths(n) == UNION {[1..k -> EntrySet] : k \in 1..n}

InitDensity ==
    /\ payload \in {<<>>} \cup {<<a>> : a \in PayloadPaths(MaxPathLen)}
                       \cup {<<a, b>> : a, b \in PayloadPaths(MaxPathLen)}
    /\ focal \in FocalSet
    /\ pc = "start"
    /\ paths = <<>> /\ vis = <<>> /\ visIdxToPathElem = <<>>
    /\ err = ""
    /\ density = "" /\ showOp = FALSE
    /\ NoGraph
    /\ InitOther

SpecDensity == InitDensity /\ [][Next]_vars

-----------------------------------------------------------------------------
(* GraphModels of element lists the caller has edited *)

InitConstruct ==
    /\ payload \in Payloads(MaxBuildElems)
    /\ focal \in FocalSet
    /\ pc = "start"
    /\ paths = <<>> /\ vis = <<>> /\ visIdxToPathElem = <<>>
    /\ err = ""
    /\ density = "" /\ showOp = FALSE
    /\ NoGraph
    /\ InitOther

\* is the caller's list the one transformDdgData returned
AsTransformed ==
    /\ Len(visIdxToPathElem) = Cardinality(PathElemsOf(paths))
    /\ \A k \in 1..Len(visIdxToPathElem) : vis[visIdxToPathElem[k]] = Some(k - 1)

\* Array.prototype.splice(k, 1), k from 0
splice(arr, k) == SubSeq(arr, 1, k) \o SubSeq(arr, k + 2, Len(arr))

\* the caller hands over a list of its own making: visIdxToPathElem with one
\* element spliced out, or with one element moved to the end
Tamper ==
    /\ pc = "transformed" /\ AsTransformed
    /\ \E k \in 0..(Len(visIdxToPathElem) - 1) :
          \/ visIdxToPathElem' = splice(visIdxToPathElem, k)
          \/ /\ k < Len(visIdxToPathElem) - 1
             /\ visIdxToPathElem' =
                    Append(splice(visIdxToPathElem, k), visIdxToPathElem[k + 1])
    /\ UNCHANGED <<pc, err, payload, focal, paths, vis, density, showOp, vertices,
                   vertexToPathElems, pathElemToVertex, pathElemToEdge,
                   thisVisIdxToPathElem>>
    /\ UNCHANGED <<peVars, codecVars, queryVars, asyncVars>>

NextConstruct == Transform \/ Tamper \/ MakeGraph

SpecConstruct == InitConstruct /\ [][NextConstruct]_vars

-----------------------------------------------------------------------------
(* Queries of a GraphModel: the visible subgraph *)

QueryEntrySet ==
    { [service |-> StrA, operation |-> StrA],
      [service |-> StrB, operation |-> StrC] }

\* every payload of non-empty paths over QueryEntrySet, n entries in total at most
QueryPayloads(n) ==
    { Split(flat, cuts, 1) :
        flat \in UNION {[1..k -> QueryEntrySet] : k \in 0..n},
        cuts \in SUBSET (1..(n - 1)) }

InitQuery ==
    /\ payload \in QueryPayloads(MaxQueryElems)
    /\ focal \in {f \in FocalSet : f.operation # None}
    /\ pc = "start"
    /\ paths = <<>> /\ vis = <<>> /\ visIdxToPathElem = <<>>
    /\ err = ""
    /\ density = "" /\ showOp = FALSE
    /\ NoGraph
    /\ InitOther

\* the GraphModel held by the caller
TheGraph ==
    [vertices |-> vertices, vertexToPathElems |-> vertexToPathElems,
     pathElemToVertex |-> pathElemToVertex, pathElemToEdge |-> pathElemToEdge]

\* the visEncoding arguments: absent, or the encoding of a set of indices up
\* to n
Encodings(n) == {None} \cup {Some(RunsOf(S, 0)) : S \in SUBSET (0..n)}

\* the uiFind arguments: absent, "", " ", "b", "C", "x A"
UiFindSet ==
    {None, Some(<<>>), Some(<<32>>), Some(<<98>>), Some(<<67>>), Some(<<120, 32, 65>>)}

\* graph.getVisible(visEncoding), the indices reaching one past the model's
GetVisible ==
    /\ pc = "graph"
    /\ \E visEncoding \in Encodings(Len(thisVisIdxToPathElem)) :
        \E r \in {MemoGetVisible(memo, TheGraph, paths, thisVisIdxToPathElem, visEncoding)} :
            /\ call' = [NoCall EXCEPT !.op = "getVisible", !.visEncoding = visEncoding]
            /\ ret' = r.value
            /\ memo' = r.memo
            /\ err' = IF r.value.threw THEN "PathElem wasn't present in initial model"
                      ELSE ""
    /\ pc' = "queried"
    /\ UNCHANGED <<hist, ddgVars, peVars, codecVars, asyncVars>>

\* graph.getVisibleUiFindMatches(uiFind, visEncoding)
GetVisibleUiFindMatches ==
    /\ pc = "graph"
    /\ \E uiFind \in UiFindSet, visEncoding \in Encodings(Len(thisVisIdxToPathElem)) :
        \E r \in {MemoGetVisibleUiFindMatches(memo, TheGraph, paths, thisVisIdxToPathElem,
                                              uiFind, visEncoding)} :
            /\ call' = [NoCall EXCEPT !.op = "getVisibleUiFindMatches",
                                      !.uiFind = uiFind, !.visEncoding = visEncoding]
            /\ ret' = r.value
            /\ memo' = r.memo
            /\ err' = IF r.value.threw THEN "PathElem wasn't present in initial model"
                      ELSE ""
    /\ pc' = "queried"
    /\ UNCHANGED <<hist, ddgVars, peVars, codecVars, asyncVars>>

\* an object that is no PathElem of the model
Problematic == <<0, 0>>

\* mutant: the GraphModel holds the caller's array itself
HeldArray_Shared(own, callers) == callers

\* the GraphModel's array when the caller's array has changed: it is the copy
\* made at construction and is left as it was
HeldArray(own, callers) == own

\* the caller pushes an object onto the visIdxToPathElem array it built the
\* GraphModel of
Push ==
    /\ pc = "graph" /\ Problematic \notin Range(visIdxToPathElem)
    /\ visIdxToPathElem' = Append(visIdxToPathElem, Problematic)
    /\ thisVisIdxToPathElem' = HeldArray(thisVisIdxToPathElem, visIdxToPathElem')
    /\ UNCHANGED <<pc, err, payload, focal, paths, vis, density, showOp, vertices,
                   vertexToPathElems, pathElemToVertex, pathElemToEdge>>
    /\ UNCHANGED <<peVars, codecVars, queryVars, asyncVars>>

NextVisible ==
    Transform \/ MakeGraph \/ Push \/ GetVisible \/ GetVisibleUiFindMatches

SpecVisible == InitQuery /\ [][NextVisible]_vars

-----------------------------------------------------------------------------
(* Queries of a GraphModel: a caller going round more encodings than a cache *)
(* holds                                                                     *)

MemoPayloads ==
    { <<>>,
      << <<[service |-> StrA, operation |-> StrA], [service |-> StrB, operation |-> StrC]>> >>,
      << <<[service |-> StrA, operation |-> StrA]>>,
         <<[service |-> StrB, operation |-> StrC], [service |-> StrA, operation |-> StrA]>> >> }

InitMemo ==
    /\ payload \in MemoPayloads
    /\ focal = [service |-> StrA, operation |-> Some(StrA)]
    /\ pc = "start"
    /\ paths = <<>> /\ vis = <<>> /\ visIdxToPathElem = <<>>
    /\ err = ""
    /\ density = "" /\ showOp = FALSE
    /\ NoGraph
    /\ InitOther

\* the encodings the caller uses: none, then those of the sets of indices
\* numbered in binary
EncodingAt(i) ==
    IF i = 0 THEN None
    ELSE Some(RunsOf({b \in 0..MemoKeyCount : ((i - 1) \div (2 ^ b)) % 2 = 1}, 0))

\* every MemoStride-th encoding is asked of getVisible, the others of
\* getVisibleUiFindMatches
MemoStride == 4

\* the encodings the caller may hand to a method next: EncodingAt(0) first;
\* then the one it used last, to repeat its call or to ask getVisible for what
\* it has just matched in, and the one after, asked of the method whose turn
\* it is
NextEncodings(op) ==
    IF call.op = "" THEN {EncodingAt(0)}
    ELSE LET i == CHOOSE k \in 0..(MemoKeyCount - 1) : EncodingAt(k) = call.visEncoding
             n == (i + 1) % MemoKeyCount
         IN  {call.visEncoding : x \in {op} \cap {"getVisible", call.op}}
                \cup {EncodingAt(n) : x \in {op} \cap
                         {IF n % MemoStride = 0 THEN "getVisible"
                                                ELSE "getVisibleUiFindMatches"}}

\* graph.getVisible(visEncoding), once more
CallGetVisible ==
    /\ pc \in {"graph", "queried"}
    /\ \E visEncoding \in NextEncodings("getVisible") :
        \E r \in {MemoGetVisible(memo, TheGraph, paths, thisVisIdxToPathElem, visEncoding)} :
            /\ call' = [NoCall EXCEPT !.op = "getVisible", !.visEncoding = visEncoding]
            /\ ret' = r.value
            /\ memo' = r.memo
    /\ pc' = "queried"
    /\ UNCHANGED <<err, hist, ddgVars, peVars, codecVars, asyncVars>>

\* graph.getVisibleUiFindMatches('b', visEncoding), once more
CallGetVisibleUiFindMatches ==
    /\ pc \in {"graph", "queried"}
    /\ \E visEncoding \in NextEncodings("getVisibleUiFindMatches") :
        LET r == MemoGetVisibleUiFindMatches(memo, TheGraph, paths, thisVisIdxToPathElem,
                                             Some(<<98>>), visEncoding)
        IN  /\ call' = [NoCall EXCEPT !.op = "getVisibleUiFindMatches",
                                      !.uiFind = Some(<<98>>),
                                      !.visEncoding = visEncoding]
            /\ ret' = r.value
            /\ memo' = r.memo
    /\ pc' = "queried"
    /\ UNCHANGED <<err, hist, ddgVars, peVars, codecVars, asyncVars>>

NextMemo == Transform \/ MakeGraph \/ CallGetVisible \/ CallGetVisibleUiFindMatches

SpecMemo == InitMemo /\ [][NextMemo]_vars

-----------------------------------------------------------------------------
(* Queries of a GraphModel: generations *)

\* a key no vertex has: "x"
AbsentKey == <<120>>

VertexKeyArgs == DOMAIN vertices \cup {AbsentKey}

\* graph.getGeneration(vertexKey, direction, visEncoding)
GetGeneration ==
    /\ pc = "graph"
    /\ \E vertexKey \in VertexKeyArgs, direction \in EDirection,
          visEncoding \in Encodings(Len(thisVisIdxToPathElem) - 1) :
        /\ call' = [NoCall EXCEPT !.op = "getGeneration",
                                  !.vertexKey = Some(vertexKey),
                                  !.direction = direction,
                                  !.visEncoding = visEncoding]
        /\ ret' = getGeneration(TheGraph, paths, vis, thisVisIdxToPathElem,
                                vertexKey, direction, visEncoding)
    /\ pc' = "queried"
    /\ UNCHANGED <<err, hist, memo, ddgVars, peVars, codecVars, asyncVars>>

\* graph.getGenerationVisibility(vertexKey, direction, visEncoding)
GetGenerationVisibility ==
    /\ pc = "graph"
    /\ \E vertexKey \in VertexKeyArgs, direction \in EDirection,
          visEncoding \in Encodings(Len(thisVisIdxToPathElem) - 1) :
        /\ call' = [NoCall EXCEPT !.op = "getGenerationVisibility",
                                  !.vertexKey = Some(vertexKey),
                                  !.direction = direction,
                                  !.visEncoding = visEncoding]
        /\ ret' = getGenerationVisibility(TheGraph, paths, vis, thisVisIdxToPathElem,
                                          vertexKey, direction, visEncoding)
    /\ pc' = "queried"
    /\ UNCHANGED <<err, hist, memo, ddgVars, peVars, codecVars, asyncVars>>

\* graph.getVisWithUpdatedGeneration(vertexKey, direction, visEncoding)
GetVisWithUpdatedGeneration ==
    /\ pc = "graph"
    /\ \E vertexKey \in VertexKeyArgs, direction \in EDirection,
          visEncoding \in Encodings(Len(thisVisIdxToPathElem) - 1) :
        /\ call' = [NoCall EXCEPT !.op = "getVisWithUpdatedGeneration",
                                  !.vertexKey = Some(vertexKey),
                                  !.direction = direction,
                                  !.visEncoding = visEncoding]
        /\ ret' = getVisWithUpdatedGeneration(TheGraph, paths, vis, thisVisIdxToPathElem,
                                              vertexKey, direction, visEncoding)
    /\ pc' = "queried"
    /\ UNCHANGED <<err, hist, memo, ddgVars, peVars, codecVars, asyncVars>>

\* the caller toggles the same generation again, on the encoding it was given
ToggleAgain ==
    /\ pc = "queried" /\ hist = <<>>
    /\ call.op = "getVisWithUpdatedGeneration" /\ ret # None
    /\ hist' = <<[call |-> call, ret |-> ret]>>
    /\ call' = [call EXCEPT !.visEncoding = Some(ret[1].visEncoding)]
    /\ ret' = getVisWithUpdatedGeneration(TheGraph, paths, vis, thisVisIdxToPathElem,
                                          call.vertexKey[1], call.direction,
                                          Some(ret[1].visEncoding))
    /\ UNCHANGED <<pc, err, memo, ddgVars, peVars, codecVars, asyncVars>>

NextGeneration ==
    \/ Transform \/ MakeGraph
    \/ GetGeneration \/ GetGenerationVisibility \/ GetVisWithUpdatedGeneration
    \/ ToggleAgain

SpecGeneration == InitQuery /\ [][NextGeneration]_vars

\* the arguments of getVisWithVertices: up to MaxVertexArgs vertices, each a
\* vertex of this model (Some(key)) or an object that is not one (None)
MaxVertexArgs == 2

VertexArgs ==
    UNION {[1..n -> {Some(k) : k \in DOMAIN vertices} \cup {None}] : n \in 0..MaxVertexArgs}

\* graph.getVisWithoutVertex(vertexKey, visEncoding)
GetVisWithoutVertex ==
    /\ pc = "graph"
    /\ \E vertexKey \in VertexKeyArgs, visEncoding \in Encodings(Len(thisVisIdxToPathElem) - 1) :
        /\ call' = [NoCall EXCEPT !.op = "getVisWithoutVertex",
                                  !.vertexKey = Some(vertexKey),
                                  !.visEncoding = visEncoding]
        /\ ret' = getVisWithoutVertex(TheGraph, paths, vis, thisVisIdxToPathElem,
                                      vertexKey, visEncoding)
    /\ pc' = "queried"
    /\ UNCHANGED <<err, hist, memo, ddgVars, peVars, codecVars, asyncVars>>

\* the caller hides the same vertex again, on the encoding it was given
HideAgain ==
    /\ pc = "queried" /\ hist = <<>>
    /\ call.op = "getVisWithoutVertex" /\ ret # None
    /\ hist' = <<[call |-> call, ret |-> ret]>>
    /\ call' = [call EXCEPT !.visEncoding = ret]
    /\ ret' = getVisWithoutVertex(TheGraph, paths, vis, thisVisIdxToPathElem,
                                  call.vertexKey[1], ret)
    /\ UNCHANGED <<pc, err, memo, ddgVars, peVars, codecVars, asyncVars>>

\* graph.getVisWithVertices(vertices, visEncoding)
GetVisWithVertices ==
    /\ pc = "graph"
    /\ \E vs \in VertexArgs, visEncoding \in Encodings(Len(thisVisIdxToPathElem) - 1) :
        /\ call' = [NoCall EXCEPT !.op = "getVisWithVertices",
                                  !.vertices = vs,
                                  !.visEncoding = visEncoding]
        /\ ret' = getVisWithVertices(TheGraph, paths, vis, vs, visEncoding)
    /\ pc' = "queried"
    /\ UNCHANGED <<err, hist, memo, ddgVars, peVars, codecVars, asyncVars>>

NextVertexVis ==
    \/ Transform \/ MakeGraph
    \/ GetVisWithoutVertex \/ HideAgain \/ GetVisWithVertices

SpecVertexVis == InitQuery /\ [][NextVertexVis]_vars

\* a caller that keeps the encoding a mutator query returned and hands it to
\* the next one, MaxChain queries at most, the first on the absent encoding
MaxChain == 2

\* the encoding the last mutator query returned, None if it returned none
Returned ==
    IF call.op = "getVisWithUpdatedGeneration"
    THEN IF ret = None THEN None ELSE Some(ret[1].visEncoding)
    ELSE IF call.op = "getVisWithoutVertex" THEN ret
    ELSE IF call.op = "getVisWithVertices" /\ ~ret.threw THEN ret.visEncoding
    ELSE None

\* the caller can make a mutator query: its first, or one on what the last
\* one returned
CanChain ==
    \/ pc = "graph"
    \/ pc = "queried" /\ Len(hist) + 1 < MaxChain /\ Returned # None

ChainEncoding == IF pc = "graph" THEN None ELSE Returned

ChainHist == IF pc = "graph" THEN <<>> ELSE Append(hist, [call |-> call, ret |-> ret])

ThenUpdatedGeneration ==
    /\ CanChain
    /\ \E vertexKey \in DOMAIN vertices, direction \in EDirection :
        /\ call' = [NoCall EXCEPT !.op = "getVisWithUpdatedGeneration",
                                  !.vertexKey = Some(vertexKey),
                                  !.direction = direction,
                                  !.visEncoding = ChainEncoding]
        /\ ret' = getVisWithUpdatedGeneration(TheGraph, paths, vis, thisVisIdxToPathElem,
                                              vertexKey, direction, ChainEncoding)
    /\ pc' = "queried" /\ hist' = ChainHist
    /\ UNCHANGED <<err, memo, ddgVars, peVars, codecVars, asyncVars>>

ThenWithoutVertex ==
    /\ CanChain
    /\ \E vertexKey \in DOMAIN vertices :
        /\ call' = [NoCall EXCEPT !.op = "getVisWithoutVertex",
                                  !.vertexKey = Some(vertexKey),
                                  !.visEncoding = ChainEncoding]
        /\ ret' = getVisWithoutVertex(TheGraph, paths, vis, thisVisIdxToPathElem,
                                      vertexKey, ChainEncoding)
    /\ pc' = "queried" /\ hist' = ChainHist
    /\ UNCHANGED <<err, memo, ddgVars, peVars, codecVars, asyncVars>>

ThenWithVertices ==
    /\ CanChain
    /\ \E vs \in VertexArgs :
        /\ call' = [NoCall EXCEPT !.op = "getVisWithVertices",
                                  !.vertices = vs,
                                  !.visEncoding = ChainEncoding]
        /\ ret' = getVisWithVertices(TheGraph, paths, vis, vs, ChainEncoding)
    /\ pc' = "queried" /\ hist' = ChainHist
    /\ UNCHANGED <<err, memo, ddgVars, peVars, codecVars, asyncVars>>

NextMutators ==
    \/ Transform \/ MakeGraph
    \/ ThenUpdatedGeneration \/ ThenWithoutVertex \/ ThenWithVertices

SpecMutators == InitQuery /\ [][NextMutators]_vars

-----------------------------------------------------------------------------
(* A stand-alone PathElem, read and written by its owner *)

InitDdgIdle ==
    /\ payload = <<>> /\ focal = [service |-> StrA, operation |-> None]
    /\ paths = <<>> /\ vis = <<>> /\ visIdxToPathElem = <<>>
    /\ err = ""
    /\ density = "" /\ showOp = FALSE
    /\ NoGraph

InitPathElem ==
    /\ pc = "pathElem"
    /\ InitDdgIdle
    /\ InitOther

\* pathElem.visibilityIdx = v
PathElemSet ==
    /\ pc = "pathElem"
    /\ peOps < MaxOps
    /\ \E v \in 0..MaxVisIdx :
        LET r == SetVisibilityIdx(peVis, v)
        IN  /\ peVis' = r.value
            /\ peFirst' = IF peFirst = None THEN Some(v) ELSE peFirst
            /\ peLast' = [op |-> "set", arg |-> Some(v), threw |-> r.threw, value |-> None]
            /\ err' = IF r.threw THEN "Visibility Index cannot be changed once set" ELSE ""
    /\ peOps' = peOps + 1
    /\ peSets' = peSets + 1
    /\ UNCHANGED <<pc, ddgVars, codecVars, queryVars, asyncVars>>

\* pathElem.visibilityIdx
PathElemGet ==
    /\ pc = "pathElem"
    /\ peOps < MaxOps
    /\ LET r == GetVisibilityIdx(peVis)
       IN  /\ peLast' = [op |-> "get", arg |-> None, threw |-> r.threw, value |-> r.value]
           /\ err' = IF r.threw THEN "Visibility Index was never set for this PathElem"
                     ELSE ""
    /\ peOps' = peOps + 1
    /\ UNCHANGED <<pc, peVis, peFirst, peSets, ddgVars, codecVars, queryVars, asyncVars>>

NextPathElem == PathElemSet \/ PathElemGet

SpecPathElem == InitPathElem /\ [][NextPathElem]_vars

-----------------------------------------------------------------------------
(* A Tween, its window and its owner *)

InitTween ==
    /\ pc = "tween"
    /\ InitDdgIdle
    /\ InitOther

\* the owner constructs the Tween
NewTween ==
    /\ pc = "tween" /\ ~tween.constructed
    /\ \E duration \in 0..MaxDuration, delay \in 0..MaxDelay,
          onUpdate \in {None} \cup {Some(c) : c \in TTweenCallback},
          onComplete \in {None} \cup {Some(c) : c \in TTweenCallback} :
        tween' = Tween(tween, duration, delay, onUpdate, onComplete)
    /\ UNCHANGED <<pc, err, ddgVars, peVars, codecVars, queryVars, api>>

\* a millisecond passes
Tick ==
    /\ pc = "tween" /\ tween.constructed /\ tween.now < MaxTime
    /\ tween' = [tween EXCEPT !.now = @ + 1]
    /\ UNCHANGED <<pc, err, ddgVars, peVars, codecVars, queryVars, api>>

\* the window runs a timeout that is due
FireTimeout ==
    /\ pc = "tween" /\ tween.fired < MaxFrames
    /\ \E x \in tween.timeouts :
        /\ x.due <= tween.now
        /\ tween' = _frameCallback([tween EXCEPT !.timeouts = @ \ {x},
                                                 !.fired = @ + 1])
    /\ UNCHANGED <<pc, err, ddgVars, peVars, codecVars, queryVars, api>>

\* the window runs a scheduled animation frame
FireFrame ==
    /\ pc = "tween" /\ tween.fired < MaxFrames
    /\ \E id \in tween.frames :
        tween' = _frameCallback([tween EXCEPT !.frames = @ \ {id},
                                             !.fired = @ + 1])
    /\ UNCHANGED <<pc, err, ddgVars, peVars, codecVars, queryVars, api>>

\* the owner cancels the Tween, between the callbacks of the window
Cancel ==
    /\ pc = "tween" /\ tween.constructed
    /\ tween' = cancel(tween)
    /\ UNCHANGED <<pc, err, ddgVars, peVars, codecVars, queryVars, api>>

NextTween == NewTween \/ Tick \/ FireTimeout \/ FireFrame \/ Cancel

SpecTween == InitTween /\ [][NextTween]_vars

-----------------------------------------------------------------------------
(* A call of JaegerAPI.fetchTrace and the server answering its requests *)

InitApi ==
    /\ pc = "api"
    /\ InitDdgIdle
    /\ InitOther

\* JaegerAPI.fetchTrace(id): the trace request is sent
FetchTrace ==
    /\ pc = "api" /\ api.phase = "idle"
    /\ api' = [api EXCEPT !.phase = "requested"]
    /\ UNCHANGED <<pc, err, ddgVars, peVars, codecVars, queryVars, tween>>

\* getJSON rejects for the trace request, and fetchTrace with it
TraceRejected ==
    /\ pc = "api" /\ api.phase = "requested"
    /\ api' = [api EXCEPT !.phase = "rejected"]
    /\ UNCHANGED <<pc, err, ddgVars, peVars, codecVars, queryVars, tween>>

\* getJSON resolves for the trace request: populateSpanReference is called for
\* every reference of every span that has an array of references
TraceResolved ==
    /\ pc = "api" /\ api.phase = "requested"
    /\ \E traceData \in TraceDatas :
        api' = [api EXCEPT
                  !.phase = "populating",
                  !.traceData = Some(traceData),
                  !.original = Some(traceData),
                  !.requests = [pos \in RefsOf(traceData) |->
                                   IF NeedsRequest(RefAt(traceData, pos))
                                   THEN "inflight" ELSE "none"],
                  !.responses = [pos \in RefsOf(traceData) |-> None]]
    /\ UNCHANGED <<pc, err, ddgVars, peVars, codecVars, queryVars, tween>>

\* one of the reference requests in flight is answered, in any order
ReferenceSettled ==
    /\ pc = "api" /\ api.phase = "populating"
    /\ \E pos \in DOMAIN api.requests, r \in RefResponses :
        /\ api.requests[pos] = "inflight"
        /\ api' = [api EXCEPT
                     !.traceData[1].spans[pos[1]].references[1][pos[2]] =
                         populateSpanReference(@, r),
                     !.requests[pos] = "settled",
                     !.responses[pos] = Some(r)]
    /\ UNCHANGED <<pc, err, ddgVars, peVars, codecVars, queryVars, tween>>

\* Promise.all(populateSpanReferences).then(() => traceData)
AllSettled ==
    /\ pc = "api" /\ api.phase = "populating"
    /\ \A pos \in DOMAIN api.requests : api.requests[pos] # "inflight"
    /\ api' = [api EXCEPT !.phase = "resolved", !.value = api.traceData]
    /\ UNCHANGED <<pc, err, ddgVars, peVars, codecVars, queryVars, tween>>

NextApi ==
    FetchTrace \/ TraceRejected \/ TraceResolved \/ ReferenceSettled \/ AllSettled

SpecApi == InitApi /\ [][NextApi]_vars

-----------------------------------------------------------------------------
(* The codec, round trip *)

RECURSIVE IndexArrays(_)
\* the arrays over 0..MaxCodecIdx of length at most n
IndexArrays(n) ==
    IF n = 0 THEN {<<>>}
    ELSE LET shorter == IndexArrays(n - 1)
         IN  shorter \cup {Append(a, i) : a \in {b \in shorter : Len(b) = n - 1},
                                          i \in 0..MaxCodecIdx}

InitCodec ==
    /\ pc = "codec"
    /\ InitDdgIdle
    /\ peVis = None /\ peFirst = None
    /\ peLast = [op |-> "new", arg |-> None, threw |-> FALSE, value |-> None]
    /\ peOps = 0 /\ peSets = 0
    /\ codecIn \in IndexArrays(MaxCodecLen)
    /\ token = None /\ codecOut = None
    /\ call = NoCall /\ ret = None /\ hist = <<>> /\ memo = NoMemo
    /\ tween = NoTween /\ api = NoApi

\* token = encode(codecIn)
Encode ==
    /\ pc = "codec"
    /\ token' = Some(encode(codecIn))
    /\ pc' = "encoded"
    /\ UNCHANGED <<codecIn, codecOut, err, ddgVars, peVars, queryVars, asyncVars>>

\* graph.getVisibleIndices(token)
Decode ==
    /\ pc = "encoded"
    /\ LET r == getVisibleIndices(paths, vis, token)
       IN  /\ codecOut' = Some(r)
           /\ err' = IF r.threw THEN "malformed visibility token" ELSE ""
    /\ pc' = "decoded"
    /\ UNCHANGED <<codecIn, token, ddgVars, peVars, queryVars, asyncVars>>

NextCodec == Encode \/ Decode

SpecCodec == InitCodec /\ [][NextCodec]_vars

-----------------------------------------------------------------------------
(* Claims *)

VisOf(pe) == vis[pe][1]

\* does member i (from 0) of the members m match the focal selector
MatchesFocal(m, i) ==
    /\ m[i + 1].service = focal.service
    /\ (focal.operation = None \/ m[i + 1].operation = focal.operation[1])

\* C1: decoding the encoding of an index array yields exactly the set of its
\* indices, and the empty token is the encoding of the empty set and of no other.
C1_RoundTrip ==
    /\ pc = "decoded" =>
          codecOut = Some([threw |-> FALSE, indices |-> Range(codecIn)])
    /\ pc \in {"encoded", "decoded"} =>
          (token = Some(EmptyToken) <=> codecIn = <<>>)

C1_Witness ==
    /\ pc = "decoded"
    /\ 0 \in Range(codecIn)
    /\ Cardinality(Range(codecIn)) = 3
    /\ Len(token[1]) = 2

\* C2: after transformDdgData returns, the visibility indices are exactly
\* 0..N-1 for the N entries of the payload: every PathElem has one index, no
\* two share one, and visIdxToPathElem[i] is the PathElem whose index is i.
C2_DenseIndices ==
    pc = "transformed" =>
        LET N == Len(Flatten(payload))
            elems == PathElemsOf(paths)
        IN  /\ Len(paths) = Len(payload)
            /\ Cardinality(elems) = N
            /\ \A pe \in elems : vis[pe] # None /\ VisOf(pe) \in 0..(N - 1)
            /\ \A pe, qe \in elems : vis[pe] = vis[qe] => pe = qe
            /\ Len(visIdxToPathElem) = N
            /\ \A i \in 0..(N - 1) :
                  /\ visIdxToPathElem[i + 1] \in elems
                  /\ vis[visIdxToPathElem[i + 1]] = Some(i)

C2_Witness ==
    /\ pc = "transformed"
    /\ Len(paths) >= 2
    /\ Len(visIdxToPathElem) >= 5
    /\ \E pe \in PathElemsOf(paths) : distance(paths, pe) >= 2
    /\ \E pe \in PathElemsOf(paths) : distance(paths, pe) <= -1

\* C3: the absolute distance is non-decreasing in the visibility index.
C3_DistanceMonotonic ==
    pc = "transformed" =>
        \A pe, qe \in PathElemsOf(paths) :
            VisOf(pe) < VisOf(qe) =>
                Abs(distance(paths, pe)) <= Abs(distance(paths, qe))

C3_Witness ==
    /\ pc = "transformed"
    /\ \E pe, qe \in PathElemsOf(paths) :
          /\ distance(paths, pe) = -2 /\ distance(paths, qe) = 1
          /\ VisOf(qe) < VisOf(pe)

\* rank of a distance tier in the claimed order 0, -1, 1, -2, 2, ...
ClaimedTierRank(d) == IF d < 0 THEN 2 * Abs(d) - 1 ELSE 2 * d
\* rank of a distance tier in the order 0, 1, -1, 2, -2, ...
TierRank(d) == IF d > 0 THEN 2 * d - 1 ELSE 2 * Abs(d)

\* C4 as stated: indices are assigned tier by tier in the order 0, -1, 1, -2,
\* 2, ...: every PathElem at distance -k gets a smaller index than every one at +k.
C4_Original ==
    pc = "transformed" =>
        \A pe, qe \in PathElemsOf(paths) :
            ClaimedTierRank(distance(paths, pe)) < ClaimedTierRank(distance(paths, qe))
                => VisOf(pe) < VisOf(qe)

\* C4 amended: indices are assigned tier by tier in the order 0, 1, -1, 2, -2,
\* ...: distance 0 first, and every PathElem at distance +k gets a smaller index
\* than every one at -k; within a tier the order is that of the sorted paths;
\* the assignment stops with no PathElem left without an index.
C4_TierOrder ==
    pc = "transformed" =>
        /\ \A pe, qe \in PathElemsOf(paths) :
              TierRank(distance(paths, pe)) < TierRank(distance(paths, qe))
                  => VisOf(pe) < VisOf(qe)
        /\ \A pe, qe \in PathElemsOf(paths) :
              (distance(paths, pe) = distance(paths, qe) /\ pe[1] < qe[1])
                  => VisOf(pe) < VisOf(qe)
        /\ \A pe \in PathElemsOf(paths) : vis[pe] # None

C4_Witness ==
    /\ pc = "transformed"
    /\ \E pe, qe \in PathElemsOf(paths) :
          /\ distance(paths, pe) = 1 /\ distance(paths, qe) = -1
          /\ VisOf(pe) < VisOf(qe)
    /\ \E pe, qe \in PathElemsOf(paths) :
          /\ distance(paths, pe) = -1 /\ distance(paths, qe) = 2
          /\ VisOf(pe) < VisOf(qe)

Perms(n) == {f \in [1..n -> 1..n] : \A i, j \in 1..n : f[i] = f[j] => i = j}

\* the index of every (path content, offset) element of a transform result
Assignment(ps, v) == {<<ps[pe[1]].members, pe[2], v[pe]>> : pe \in PathElemsOf(ps)}

VertexKeys(g) == DOMAIN g.vertices
EdgePairs(g) == {<<g.pathElemToEdge[pe].from, g.pathElemToEdge[pe].to>> :
                    pe \in DOMAIN g.pathElemToEdge}

\* C5: for every permutation of the payload's paths, transformDdgData gives the
\* same visibility index to the same (path content, offset) element, and the
\* GraphModel of either result has the same vertex keys and (from, to) pairs.
C5_Determinism ==
    pc = "transformed" =>
        \A f \in Perms(Len(payload)) :
            LET r == transformDdgData([i \in 1..Len(payload) |-> payload[f[i]]], focal)
            IN  /\ ~r.threw
                /\ Assignment(r.paths, r.vis) = Assignment(paths, vis)
                /\ \A d \in DensitySet, so \in BOOLEAN :
                      LET g == GraphModel(paths, visIdxToPathElem, d, so)
                          h == GraphModel(r.paths, r.visIdxToPathElem, d, so)
                      IN  /\ VertexKeys(g) = VertexKeys(h)
                          /\ EdgePairs(g) = EdgePairs(h)

\* C6: focalIdx of every path is the smallest offset that matches the focal
\* selector (service, and operation when one is given); a later occurrence of
\* the focal node never becomes focalIdx.
C6_FocalIdxFirstMatch ==
    pc = "transformed" =>
        \A p \in 1..Len(paths) :
            LET m == paths[p].members
                fi == paths[p].focalIdx
            IN  /\ fi \in 0..(Len(m) - 1)
                /\ MatchesFocal(m, fi)
                /\ \A j \in 0..(fi - 1) : ~MatchesFocal(m, j)

C6_Witness ==
    /\ pc = "transformed"
    /\ focal.operation # None
    /\ \E p \in 1..Len(paths) :
          /\ paths[p].focalIdx = 1
          /\ paths[p].members[1].service = focal.service
          /\ \E j \in 2..(Len(paths[p].members) - 1) : MatchesFocal(paths[p].members, j)

\* C7: if any path of the payload has no entry matching the focal selector,
\* transformDdgData throws and returns no model, wherever that path stands.
C7_MissingFocalThrows ==
    (/\ pc # "start"
     /\ \E k \in 1..Len(payload) :
           \A i \in 0..(Len(payload[k]) - 1) : ~MatchesFocal(payload[k], i))
        => /\ pc = "transformFailed"
           /\ err = "A payload path lacked the focalNode"
           /\ paths = <<>> /\ vis = <<>> /\ visIdxToPathElem = <<>>

C7_Witness ==
    /\ pc = "transformFailed"
    /\ Len(payload) = 3
    /\ \A i \in 0..(Len(payload[1]) - 1) : ~MatchesFocal(payload[1], i)
    /\ \A k \in 2..3 : \E i \in 0..(Len(payload[k]) - 1) : MatchesFocal(payload[k], i)

\* C8: visibilityIdx is write-once: a read before any assignment throws; the
\* first assignment succeeds, whatever its value; every later assignment
\* throws and the stored value stays the first one assigned, which reads return.
C8_WriteOnce ==
    /\ peLast.op = "get" =>
          /\ peLast.threw <=> peSets = 0
          /\ peSets > 0 => peLast.value = peFirst
    /\ peLast.op = "set" => (peLast.threw <=> peSets > 1)
    /\ peVis = peFirst

C8_Witness ==
    /\ peFirst = Some(0)
    /\ peSets >= 2
    /\ peLast.op = "set" /\ peLast.arg = Some(0) /\ peLast.threw

\* C9: building a GraphModel of a transformDdgData result never fails with the
\* disconnected-element error, under any density and showOp: every non-focal
\* PathElem has a larger visibility index than its focalSideNeighbor.
C9_Connectivity ==
    /\ pc # "graphFailed"
    /\ pc = "transformed" =>
          \A pe \in PathElemsOf(paths) :
              distance(paths, pe) # 0 =>
                  VisOf(focalSideNeighbor(paths, pe)[1]) < VisOf(pe)
    /\ pc = "graph" => DOMAIN pathElemToVertex = PathElemsOf(paths)

C9_Witness ==
    /\ pc = "graph"
    /\ Len(paths) >= 2
    /\ \E pe \in PathElemsOf(paths) : distance(paths, pe) = 2
    /\ \E pe \in PathElemsOf(paths) : distance(paths, pe) = -1

\* the from and to keys of an edge
FromTo(edge) == [from |-> edge.from, to |-> edge.to]

\* C10 as stated: the edge of a PathElem at positive distance goes from its own
\* vertex to its focalSideNeighbor's vertex, and at negative distance from the
\* focalSideNeighbor's vertex to its own.
C10_Original ==
    pc = "graph" =>
        \A pe \in PathElemsOf(paths) :
            distance(paths, pe) # 0 =>
                LET own == pathElemToVertex[pe]
                    nbr == pathElemToVertex[focalSideNeighbor(paths, pe)[1]]
                IN  FromTo(pathElemToEdge[pe]) =
                        IF distance(paths, pe) > 0
                        THEN [from |-> own, to |-> nbr]
                        ELSE [from |-> nbr, to |-> own]

\* C10 amended: the edge of a PathElem at positive distance goes from its
\* focalSideNeighbor's vertex to its own vertex, and at negative distance from
\* its own vertex to its focalSideNeighbor's; a focal PathElem has no edge.
C10_EdgeDirection ==
    pc = "graph" =>
        \A pe \in PathElemsOf(paths) :
            IF distance(paths, pe) = 0 THEN pe \notin DOMAIN pathElemToEdge
            ELSE LET own == pathElemToVertex[pe]
                     nbr == pathElemToVertex[focalSideNeighbor(paths, pe)[1]]
                 IN  /\ pe \in DOMAIN pathElemToEdge
                     /\ FromTo(pathElemToEdge[pe]) =
                            IF distance(paths, pe) > 0
                            THEN [from |-> nbr, to |-> own]
                            ELSE [from |-> own, to |-> nbr]

C10_Witness ==
    /\ pc = "graph"
    /\ \E pe, qe \in PathElemsOf(paths) :
          /\ distance(paths, pe) > 0 /\ distance(paths, qe) < 0
          /\ pathElemToEdge[pe].from # pathElemToEdge[pe].to
          /\ pathElemToEdge[qe].from # pathElemToEdge[qe].to

FocalSlice(ps, pe) ==
    LET lo == Min(memberOf(ps, pe).focalIdx, memberIdx(pe))
        hi == Max(memberOf(ps, pe).focalIdx, memberIdx(pe))
    IN  [k \in 1..(hi - lo + 1) |-> <<pe[1], lo + k - 1>>]

\* a member as it shows on the graph: its service, and its operation when
\* operations are shown or the member is the focal occurrence
RenderedMember(ps, pe, so) ==
    [service |-> operationOf(ps, pe).service,
     operation |-> IF so \/ distance(ps, pe) = 0
                   THEN Some(operationOf(ps, pe).operation) ELSE None]

\* C20 as stated: under PreventPathEntanglement two PathElems are on the same
\* vertex only if the slices of their paths between the focal occurrence and
\* the element are identical member by member, in service and operation.
C20_Original ==
    (pc = "graph" /\ density = "PreventPathEntanglement") =>
        \A pe, qe \in PathElemsOf(paths) :
            pathElemToVertex[pe] = pathElemToVertex[qe] =>
                LET a == FocalSlice(paths, pe)
                    b == FocalSlice(paths, qe)
                IN  /\ Len(a) = Len(b)
                    /\ \A k \in 1..Len(a) :
                          operationOf(paths, a[k]) = operationOf(paths, b[k])

\* C20 amended: under PreventPathEntanglement two PathElems are on the same
\* vertex only if the slices of their paths between the focal occurrence and
\* the element have the same members as shown on the graph, in the same
\* order: the same service, and the same operation where the operation is
\* shown (showOp true, or the focal member).
C20_PathEntanglement ==
    (pc = "graph" /\ density = "PreventPathEntanglement") =>
        \A pe, qe \in PathElemsOf(paths) :
            pathElemToVertex[pe] = pathElemToVertex[qe] =>
                LET a == FocalSlice(paths, pe)
                    b == FocalSlice(paths, qe)
                IN  /\ Len(a) = Len(b)
                    /\ Sign(distance(paths, pe)) = Sign(distance(paths, qe))
                    /\ \A k \in 1..Len(a) :
                          RenderedMember(paths, a[k], showOp)
                              = RenderedMember(paths, b[k], showOp)

\* two paths share the focal node, diverge after it and meet again in equal
\* elements, which get two vertices
C20_Witness ==
    /\ pc = "graph" /\ density = "PreventPathEntanglement"
    /\ Len(paths) = 2
    /\ Len(paths[1].members) = 3 /\ Len(paths[2].members) = 3
    /\ paths[1].focalIdx = 0 /\ paths[2].focalIdx = 0
    /\ paths[1].members[1] = paths[2].members[1]
    /\ paths[1].members[2] # paths[2].members[2]
    /\ paths[1].members[3] = paths[2].members[3]
    /\ pathElemToVertex[<<1, 0>>] = pathElemToVertex[<<2, 0>>]
    /\ pathElemToVertex[<<1, 2>>] # pathElemToVertex[<<2, 2>>]

\* the index set a well-formed token stands for
RunSet(t) == UNION {t[k][1]..(t[k][1] + t[k][2] - 1) : k \in 1..Len(t)}

NoDuplicates(seq) == Cardinality(Range(seq)) = Len(seq)

VerticesOf(pes) == {vertices[pathElemToVertex[pe]] : pe \in pes}
EdgesOf(pes) == {pathElemToEdge[pe] : pe \in pes \cap DOMAIN pathElemToEdge}

\* C12: getVisible with no encoding returns exactly the vertices and edges of
\* the PathElems within two hops of the focal node, each once; as sets they are
\* those of getVisible(encode(I)), I the indices of these PathElems; a model
\* with no elements gives empty lists.
C12_DefaultVisible ==
    (pc = "queried" /\ call.op = "getVisible" /\ call.visEncoding = None) =>
        LET W == {pe \in PathElemsOf(paths) : Abs(distance(paths, pe)) <= 2}
            I == {VisOf(pe) : pe \in W}
            enc == getVisible(TheGraph, paths, visIdxToPathElem, Some(RunsOf(I, 0)))
        IN  /\ ~ret.threw
            /\ Range(ret.vertices) = VerticesOf(W)
            /\ Range(ret.edges) = EdgesOf(W)
            /\ NoDuplicates(ret.vertices) /\ NoDuplicates(ret.edges)
            /\ ~enc.threw
            /\ Range(enc.vertices) = Range(ret.vertices)
            /\ Range(enc.edges) = Range(ret.edges)
            /\ visIdxToPathElem = <<>> => (ret.vertices = <<>> /\ ret.edges = <<>>)

C12_Witness ==
    /\ pc = "queried" /\ call.op = "getVisible" /\ call.visEncoding = None
    /\ \E pe \in PathElemsOf(paths) : distance(paths, pe) = 3
    /\ \E pe \in PathElemsOf(paths) : distance(paths, pe) = 2
    /\ Len(ret.vertices) = 2 /\ Len(ret.edges) = 2

\* C13: getVisible of an encoding never fails on indices the model does not
\* have: the result is exactly the vertices and edges, each once, of the
\* decoded indices that have a PathElem, and is empty when none has.
C13_OutOfRangeDropped ==
    (pc = "queried" /\ call.op = "getVisible" /\ call.visEncoding # None) =>
        LET D == RunSet(call.visEncoding[1])
            W == {pe \in PathElemsOf(paths) : VisOf(pe) \in D}
        IN  /\ ~ret.threw
            /\ Range(ret.vertices) = VerticesOf(W)
            /\ Range(ret.edges) = EdgesOf(W)
            /\ NoDuplicates(ret.vertices) /\ NoDuplicates(ret.edges)
            /\ W = {} => (ret.vertices = <<>> /\ ret.edges = <<>>)

C13_Witness ==
    /\ pc = "queried" /\ call.op = "getVisible" /\ call.visEncoding # None
    /\ LET D == RunSet(call.visEncoding[1])
       IN  /\ Len(visIdxToPathElem) \in D
           /\ Cardinality(D) = 4
           /\ Len(ret.vertices) = 2 /\ Len(ret.edges) = 1

\* the whitespace-delimited tokens of a string: its maximal runs of code units
\* that are not whitespace
Tokens(str) ==
    {SubSeq(str, i, j) : <<i, j>> \in
        {ij \in (1..Len(str)) \X (1..Len(str)) :
            /\ ij[1] <= ij[2]
            /\ \A k \in ij[1]..ij[2] : str[k] \notin WhiteSpace
            /\ (ij[1] = 1 \/ str[ij[1] - 1] \in WhiteSpace)
            /\ (ij[2] = Len(str) \/ str[ij[2] + 1] \in WhiteSpace)}}

\* C14: getVisibleUiFindMatches(query, enc) returns exactly the vertices of
\* getVisible(enc) for which some whitespace-delimited token of the query is a
\* case-insensitive substring of the vertex's service, or of its operation when
\* the vertex shows one; an empty or absent query returns the empty set.
C14_UiFindMatches ==
    (pc = "queried" /\ call.op = "getVisibleUiFindMatches") =>
        LET visible == getVisible(TheGraph, paths, visIdxToPathElem, call.visEncoding)
            query == IF call.uiFind = None THEN <<>> ELSE call.uiFind[1]
            tokens == {toLowerCase(t) : t \in Tokens(query)}
            matches(vertex) ==
                \E t \in tokens :
                    \/ includes(toLowerCase(vertex.service), t)
                    \/ /\ vertex.operation # None
                       /\ includes(toLowerCase(vertex.operation[1]), t)
        IN  /\ ~ret.threw
            /\ ret.vertexSet = {vertex \in Range(visible.vertices) : matches(vertex)}

\* the visible index set that an optional encoding stands for
VisibleSet(visEncoding) ==
    IF visEncoding = None
    THEN {VisOf(pe) : pe \in {qe \in PathElemsOf(paths) : Abs(distance(paths, qe)) <= 2}}
    ELSE RunSet(visEncoding[1])

\* the generation of the call's vertex and direction under an encoding
GenerationOf(visEncoding) ==
    Range(getGeneration(TheGraph, paths, vis, visIdxToPathElem,
                        call.vertexKey[1], call.direction, visEncoding))

\* C15: getGenerationVisibility is null exactly when getGeneration is empty;
\* otherwise, with k generation elements of which j are visible, it is Empty
\* when j = 0, Full when j = k and Partial when 0 < j < k.
C15_GenerationVisibility ==
    (pc = "queried" /\ call.op = "getGenerationVisibility") =>
        LET generation == GenerationOf(call.visEncoding)
            k == Cardinality(generation)
            j == Cardinality({pe \in generation : VisOf(pe) \in VisibleSet(call.visEncoding)})
        IN  /\ ret = None <=> k = 0
            /\ k >= 1 => ret = Some(IF j = 0 THEN Empty ELSE IF j = k THEN Full ELSE Partial)

C15_Witness ==
    /\ pc = "queried" /\ call.op = "getGenerationVisibility"
    /\ ret = Some(Partial)
    /\ Cardinality(GenerationOf(call.visEncoding)) = 2

\* C16: getVisWithUpdatedGeneration returns undefined when the generation is
\* empty; when the generation is Full it returns update Empty and the encoding
\* of the visible set without the generation's elements; when it is Empty or
\* Partial it returns update Full and the encoding of the visible set with the
\* generation's elements added.
C16_UpdatedGeneration ==
    (pc = "queried" /\ call.op = "getVisWithUpdatedGeneration") =>
        LET generation == GenerationOf(call.visEncoding)
            indices == {VisOf(pe) : pe \in generation}
            visible == VisibleSet(call.visEncoding)
        IN  /\ generation = {} => ret = None
            /\ generation # {} =>
                  /\ ret # None
                  /\ IF indices \subseteq visible
                     THEN /\ ret[1].update = Empty
                          /\ RunSet(ret[1].visEncoding) = visible \ indices
                     ELSE /\ ret[1].update = Full
                          /\ RunSet(ret[1].visEncoding) = visible \cup indices

C16_Witness ==
    /\ pc = "queried" /\ call.op = "getVisWithUpdatedGeneration"
    /\ hist = <<>> /\ ret # None /\ ret[1].update = Full
    /\ LET generation == GenerationOf(call.visEncoding)
       IN  /\ Cardinality(generation) = 2
           /\ \E pe, qe \in generation :
                 /\ VisOf(pe) \in VisibleSet(call.visEncoding)
                 /\ VisOf(qe) \notin VisibleSet(call.visEncoding)

\* C17: when the generation is Full under an encoding E, toggling it returns
\* update Empty and E without exactly the generation's indices, and toggling
\* the same vertex and direction again on that result returns update Full and
\* an encoding of the set of E.
C17_ToggleRoundTrip ==
    (/\ pc = "queried" /\ call.op = "getVisWithUpdatedGeneration"
     /\ hist # <<>> /\ hist[1].ret[1].update = Empty) =>
        LET E == VisibleSet(hist[1].call.visEncoding)
            generation == GenerationOf(hist[1].call.visEncoding)
        IN  /\ RunSet(hist[1].ret[1].visEncoding) = E \ {VisOf(pe) : pe \in generation}
            /\ ret # None
            /\ ret[1].update = Full
            /\ RunSet(ret[1].visEncoding) = E


\* the visibility indices of every PathElem of the vertex with this key
VertexIndices(vertexKey) ==
    IF vertexKey \in DOMAIN vertexToPathElems
    THEN {VisOf(pe) : pe \in vertexToPathElems[vertexKey]}
    ELSE {}

\* C18: getVisWithoutVertex returns an encoding of a subset of the current
\* visible set that holds no index of any PathElem of the vertex; it returns
\* undefined when the key is unknown or no PathElem of the vertex is visible,
\* so applied to its own result it returns undefined.
C18_WithoutVertex ==
    (pc = "queried" /\ call.op = "getVisWithoutVertex") =>
        LET E == VisibleSet(call.visEncoding)
            own == VertexIndices(call.vertexKey[1])
        IN  /\ ret # None => /\ RunSet(ret[1]) \subseteq E
                             /\ RunSet(ret[1]) \cap own = {}
            /\ own \cap E = {} => ret = None
            /\ hist # <<>> => ret = None

\* C19: getVisWithVertices returns an encoding of a set that holds the whole
\* current visible set and every index of every PathElem of each given vertex;
\* with a vertex that is not of this model it throws and gives no encoding.
C19_WithVertices ==
    (pc = "queried" /\ call.op = "getVisWithVertices") =>
        LET E == VisibleSet(call.visEncoding)
            vs == call.vertices
        IN  IF \E k \in 1..Len(vs) : vs[k] = None
            THEN ret.threw /\ ret.visEncoding = None
            ELSE /\ ~ret.threw /\ ret.visEncoding # None
                 /\ E \subseteq RunSet(ret.visEncoding[1])
                 /\ \A k \in 1..Len(vs) :
                       VertexIndices(vs[k][1]) \subseteq RunSet(ret.visEncoding[1])

\* two vertices are shown, one of them with a hidden PathElem, on an encoding
\* that is kept whole
C19_Witness ==
    /\ pc = "queried" /\ call.op = "getVisWithVertices"
    /\ Len(call.vertices) = 2 /\ call.vertices[1] # None /\ call.vertices[2] # None
    /\ call.vertices[1] # call.vertices[2]
    /\ call.visEncoding # None /\ RunSet(call.visEncoding[1]) # {}
    /\ ~ret.threw
    /\ VertexIndices(call.vertices[1][1]) \ VisibleSet(call.visEncoding) # {}
    /\ RunSet(ret.visEncoding[1]) # VisibleSet(call.visEncoding)


\* has every non-focal PathElem of the list its focalSideNeighbor before it
ListConnected(elems) ==
    \A k \in 1..Len(elems) :
        distance(paths, elems[k]) # 0 =>
            \E j \in 1..(k - 1) : elems[j] = focalSideNeighbor(paths, elems[k])[1]

\* C21: construction throws, and yields no GraphModel, whenever the list holds
\* a non-focal PathElem whose focalSideNeighbor has no vertex yet when its turn
\* comes, the neighbor being absent from the list or later in it.
C21_DisconnectedThrows ==
    (pc \in {"graph", "graphFailed"} /\ ~ListConnected(visIdxToPathElem)) =>
        /\ pc = "graphFailed"
        /\ err = "Non-focal pathElem cannot be connected to graph"
        /\ NoGraph

\* the neighbor of an element was moved to the end of a list of three or more
C21_Witness ==
    /\ pc = "graphFailed" /\ ~AsTransformed
    /\ Len(visIdxToPathElem) = Cardinality(PathElemsOf(paths))
    /\ Len(visIdxToPathElem) >= 3

\* the PathElems a constructed GraphModel was given
GraphElems == Range(thisVisIdxToPathElem)

\* C22: in every constructed GraphModel two PathElems whose edges have the same
\* from and the same to are mapped to the one same edge object, so there are as
\* many edges as (from, to) pairs; every non-focal PathElem has an edge and no
\* focal PathElem has one.
C22_EdgesDeduplicated ==
    pc = "graph" =>
        /\ \A pe, qe \in DOMAIN pathElemToEdge :
              FromTo(pathElemToEdge[pe]) = FromTo(pathElemToEdge[qe])
                  => pathElemToEdge[pe] = pathElemToEdge[qe]
        /\ Cardinality({pathElemToEdge[pe] : pe \in DOMAIN pathElemToEdge})
              = Cardinality({FromTo(pathElemToEdge[pe]) : pe \in DOMAIN pathElemToEdge})
        /\ DOMAIN pathElemToEdge = {pe \in GraphElems : distance(paths, pe) # 0}

\* two PathElems share an edge between two vertices, and there is another edge
C22_Witness ==
    /\ pc = "graph"
    /\ \E pe, qe \in DOMAIN pathElemToEdge :
          /\ pe # qe /\ pathElemToEdge[pe] = pathElemToEdge[qe]
          /\ pathElemToEdge[pe].from # pathElemToEdge[pe].to
    /\ Cardinality({pathElemToEdge[pe] : pe \in DOMAIN pathElemToEdge}) >= 2

\* C26: in every constructed GraphModel the vertices partition the PathElems:
\* pathElemToVertex maps each PathElem of the model to one vertex,
\* vertexToPathElems of a vertex is exactly the set of PathElems mapped to it
\* and is not empty, and vertices maps each key to the vertex with that key.
C26_VerticesPartition ==
    pc = "graph" =>
        /\ AsTransformed => GraphElems = PathElemsOf(paths)
        /\ DOMAIN pathElemToVertex = GraphElems
        /\ DOMAIN vertexToPathElems = DOMAIN vertices
        /\ \A pe \in GraphElems : pathElemToVertex[pe] \in DOMAIN vertices
        /\ \A k \in DOMAIN vertices :
              /\ vertices[k].key = k
              /\ vertexToPathElems[k] # {}
              /\ vertexToPathElems[k] = {pe \in GraphElems : pathElemToVertex[pe] = k}

\* PathElems of two paths are merged onto a vertex, and there are other vertices
C26_Witness ==
    /\ pc = "graph" /\ AsTransformed
    /\ Cardinality(DOMAIN vertices) >= 3
    /\ \E k \in DOMAIN vertices : \E pe, qe \in vertexToPathElems[k] : pe[1] # qe[1]

\* C27: in every GraphModel built of a transformDdgData result a vertex has
\* isFocalNode exactly when one of its PathElems has distance 0.
C27_FocalVertices ==
    (pc = "graph" /\ AsTransformed) =>
        \A k \in DOMAIN vertices :
            vertices[k].isFocalNode
                <=> \E pe \in vertexToPathElems[k] : distance(paths, pe) = 0

\* a focal vertex that also holds a PathElem away from the focal node, next to
\* a second focal vertex
C27_Witness ==
    /\ pc = "graph" /\ AsTransformed
    /\ \E k, l \in DOMAIN vertices :
          /\ k # l /\ vertices[k].isFocalNode /\ vertices[l].isFocalNode
          /\ \E pe \in vertexToPathElems[k] : distance(paths, pe) # 0

\* the visible PathElems of the call's vertex, none for a key of no vertex
VisibleOfVertex(visEncoding) ==
    IF call.vertexKey[1] \in DOMAIN vertexToPathElems
    THEN {pe \in vertexToPathElems[call.vertexKey[1]] : VisOf(pe) \in VisibleSet(visEncoding)}
    ELSE {}

\* the member of pe's path one step away in the direction, if it exists and is
\* not pe's focalSideNeighbor
StepFrom(pe, direction) ==
    LET qe == <<pe[1], memberIdx(pe) + direction>>
    IN  IF qe \in PathElemsOf(paths) /\ Some(qe) # focalSideNeighbor(paths, pe)
        THEN {qe} ELSE {}

\* C23: getGeneration returns, for each visible PathElem of the vertex, the
\* member of its path one step away in the direction, if that member exists and
\* is not the element's focalSideNeighbor, and nothing else: nothing for an
\* unknown key, for a vertex with no visible PathElem, for leaves and roots, and
\* nothing of the hidden PathElems of the vertex.
C23_Generation ==
    (pc = "queried" /\ call.op = "getGeneration") =>
        /\ Range(ret) = UNION {StepFrom(pe, call.direction) :
                                  pe \in VisibleOfVertex(call.visEncoding)}
        /\ NoDuplicates(ret)

\* the list the GraphModel was built of, whatever the caller pushed since
BuiltOf == SelectSeq(visIdxToPathElem, LAMBDA pe : pe # Problematic)

\* the call's encoding without the index of the pushed element
WithoutPushed(visEncoding) ==
    IF visEncoding = None THEN None
    ELSE Some(RunsOf(RunSet(visEncoding[1]) \ {Len(BuiltOf)}, 0))

\* C24: once the caller has pushed an element onto its visIdxToPathElem, every
\* query returns what it returned before, and getVisible for an encoding that
\* names the pushed index returns what it returns for the encoding without it.
C24_Isolated ==
    (pc = "queried" /\ Problematic \in Range(visIdxToPathElem)) =>
        /\ call.op = "getVisible" =>
              /\ ret = getVisible(TheGraph, paths, BuiltOf, call.visEncoding)
              /\ ret = getVisible(TheGraph, paths, BuiltOf, WithoutPushed(call.visEncoding))
        /\ call.op = "getVisibleUiFindMatches" =>
              /\ ret = getVisibleUiFindMatches(TheGraph, paths, BuiltOf,
                                               call.uiFind, call.visEncoding)
              /\ ret = getVisibleUiFindMatches(TheGraph, paths, BuiltOf, call.uiFind,
                                               WithoutPushed(call.visEncoding))

\* after the push, getVisible of the last index of the model and the pushed one
C24_Witness ==
    /\ pc = "queried" /\ Problematic \in Range(visIdxToPathElem)
    /\ call.op = "getVisible" /\ call.visEncoding # None
    /\ Len(BuiltOf) >= 2
    /\ RunSet(call.visEncoding[1]) = {Len(BuiltOf) - 1, Len(BuiltOf)}
    /\ ~ret.threw /\ Len(ret.vertices) = 1

CachedKeys(entries) == {entries[i].key : i \in 1..Len(entries)}

Connected(S) ==
    \A pe \in PathElemsOf(paths) :
        (VisOf(pe) \in S /\ distance(paths, pe) # 0) =>
            VisOf(focalSideNeighbor(paths, pe)[1]) \in S

\* qe lies on pe's path, on pe's side of the focal node and farther from it
Farther(pe, qe) ==
    /\ qe[1] = pe[1]
    /\ distance(paths, pe) * distance(paths, qe) > 0
    /\ Abs(distance(paths, qe)) > Abs(distance(paths, pe))

\* C28: starting from the default visible set and handing each mutator query
\* (getVisWithUpdatedGeneration, getVisWithoutVertex, getVisWithVertices) the
\* encoding the previous one returned, every visible PathElem away from the
\* focal node has its focalSideNeighbor visible too; hiding a vertex also hides
\* what lies farther from the focal node on the paths of its visible PathElems,
\* and showing a vertex also shows what lies between it and the focal node.
C28_Connected ==
    (pc = "queried" /\ Returned # None) =>
        /\ Connected(VisibleSet(Returned))
        /\ call.op = "getVisWithoutVertex" =>
              \A pe \in VisibleOfVertex(call.visEncoding), qe \in PathElemsOf(paths) :
                  (qe = pe \/ Farther(pe, qe)) => VisOf(qe) \notin VisibleSet(Returned)
        /\ call.op = "getVisWithVertices" =>
              \A k \in 1..Len(call.vertices) :
                  \A pe \in vertexToPathElems[call.vertices[k][1]], qe \in PathElemsOf(paths) :
                      Farther(qe, pe) => VisOf(qe) \in VisibleSet(Returned)

\* C29: once cancel() has been called on a Tween, during the delay, between
\* frames or from inside onUpdate or onComplete, and the frame callback around
\* the call has returned, timeoutID and requestID are unset, no timeout and no
\* animation frame of the Tween is scheduled, and no callback is invoked again.
C29_CancelledStops ==
    tween.cancelled =>
        /\ tween.timeoutID = None /\ tween.requestID = None
        /\ tween.timeouts = {} /\ tween.frames = {}
        /\ tween.late = 0

\* the response to a reference request is malformed
Malformed(r) == r.ok /\ (~r.trace \/ ~r.spans \/ r.processes # "object")

\* the trace response with the span of every reference left out
WithoutSpans(traceData) ==
    [traceData EXCEPT !.spans =
        [i \in DOMAIN traceData.spans |->
            IF traceData.spans[i].references = None THEN traceData.spans[i]
            ELSE [references |-> Some([j \in DOMAIN traceData.spans[i].references[1] |->
                                          [span |-> None]])]]]

\* C30: fetchTrace resolves whenever the trace request succeeded, with the
\* response to that request, after every reference request has settled,
\* however many of them failed and in whatever order; a reference that had a
\* span got no request and keeps it; a reference whose request failed or got a
\* malformed response has its span unset.
C30_FetchTrace ==
    /\ api.phase = "rejected" => api.traceData = None
    /\ api.phase = "resolved" =>
          /\ WithoutSpans(api.value[1]) = WithoutSpans(api.original[1])
          /\ \A pos \in DOMAIN api.requests : api.requests[pos] # "inflight"
    /\ api.phase \in {"populating", "resolved"} =>
          \A pos \in DOMAIN api.requests :
              /\ RefAt(api.original[1], pos).span # None =>
                    /\ api.requests[pos] = "none"
                    /\ RefAt(api.traceData[1], pos) = RefAt(api.original[1], pos)
              /\ (api.requests[pos] = "settled"
                     /\ (~api.responses[pos][1].ok \/ Malformed(api.responses[pos][1]))) =>
                    RefAt(api.traceData[1], pos).span = None

====
